---- MODULE Spec2Model ----
(***************************************************************************)
(* merhongo: schema validation and the partial-update revalidation         *)
(* pipeline of model.Model (Create, UpdateById, UpdateWithQuery,           *)
(* DeleteById) running against one MongoDB collection.                     *)
(*                                                                         *)
(* The collection is the variable store; a document is a partial map from  *)
(* BSON keys to values, the document type is the TestDocument struct of    *)
(* the model tests (name string, age int, createdAt, updatedAt).           *)
(* A caller (goroutine) is a process; UpdateById talks to the database     *)
(* twice (FindOne, then UpdateOne), so it is two steps of its process and  *)
(* other callers may run in between.                                       *)
(***************************************************************************)
EXTENDS Integers, Sequences, FiniteSets, TLC

----------------------------------------------------------------------------
(* Bounds and input sets *)

\* time.Now() returns a value in 1..MaxClock; 0 is the zero time.Time
MaxClock == 2

Procs == {"p1", "p2"}

\* hex strings primitive.ObjectIDFromHex accepts, and one it rejects
ValidIds == {"id1", "id2"}
MalformedIds == {"bad"}
IdStrings == ValidIds \cup MalformedIds

NameValues == {"", "bob"}
AgeValues == {25, 40, 130}

----------------------------------------------------------------------------
(* The document type and the schema of the model tests *)

MinAge == 18
MaxAge == 100

\* Go field name -> BSON name of the struct tag
FieldTag ==
  [ID |-> "_id", Name |-> "name", Age |-> "age",
   CreatedAt |-> "createdAt", UpdatedAt |-> "updatedAt"]

GoFields == DOMAIN FieldTag

\* fields tagged omitempty
OmitEmpty == {"ID", "CreatedAt", "UpdatedAt"}

FieldKind ==
  [ID |-> "objectid", Name |-> "string", Age |-> "int",
   CreatedAt |-> "time", UpdatedAt |-> "time"]

\* the zero value of every field (reflect.Zero of its type)
ZeroValue ==
  [ID |-> "", Name |-> "", Age |-> 0, CreatedAt |-> 0, UpdatedAt |-> 0]

\* a time a caller may try to write into a timestamp key: one before every
\* time the clock shows
CallerTime == ZeroValue.CreatedAt

\* the Go field carrying a BSON name
GoFieldOf(bsonName) == CHOOSE f \in GoFields : FieldTag[f] = bsonName

BsonNames == {FieldTag[f] : f \in GoFields}

\* a placeholder of no type: the nil interface{}
NilValue == [v |-> "nil", type |-> ""]

\* the Enum of a field without one, and the ValidateFunc of a field without
NoEnum == {}
NoFunc == "nil"

\* Field{}: every rule unset
NoField ==
  [Type |-> NilValue, Required |-> FALSE, Unique |-> FALSE, Index |-> FALSE,
   Min |-> 0, Max |-> 0, Enum |-> NoEnum, ValidateFunc |-> NoFunc]

\* schema.Fields of the model under test, keyed by storage name
SchemaFields ==
  [name |-> [NoField EXCEPT !.Required = TRUE],
   age |-> [NoField EXCEPT !.Min = MinAge, !.Max = MaxAge]]

----------------------------------------------------------------------------
(* Generic maps (bson.M) and the wire format *)

EmptyMap == [k \in {} |-> 0]

\* for key, value := range upd { doc[key] = value }
Overlay(doc, upd) ==
  [k \in DOMAIN doc \cup DOMAIN upd |->
     IF k \in DOMAIN upd THEN upd[k] ELSE doc[k]]

Without(m, keys) == [k \in DOMAIN m \ keys |-> m[k]]

Single(k, v) == [x \in {k} |-> v]

\* bson.Marshal of a struct: omitempty fields are left out when zero;
\* the _id is the key of the collection and is not part of the map
MarshalStruct(inst) ==
  [b \in {FieldTag[f] : f \in {g \in GoFields \ {"ID"} :
                                 ~(g \in OmitEmpty /\ inst[g] = ZeroValue[g])}}
     |-> inst[GoFieldOf(b)]]

\* bson.Unmarshal(bson.Marshal(map), &T{}): a key without a struct field is
\* dropped, a field without a key keeps its zero value
UnmarshalStruct(id, doc) ==
  [f \in GoFields |->
     IF f = "ID" THEN id
     ELSE IF FieldTag[f] \in DOMAIN doc THEN doc[FieldTag[f]]
     ELSE ZeroValue[f]]

----------------------------------------------------------------------------
(* Validation engine: schema.ValidateDocument and defaultValidation *)

NoDetail == <<"", "">>

Valid == [err |-> "nil", detail |-> NoDetail]

Invalid(rule, field) == [err |-> "ErrValidation", detail |-> <<rule, field>>]

\* docField.IsZero()
IsZero(inst, f) == inst[f] = ZeroValue[f]

\* first loop: the required fields that are missing or empty
RequiredViolations(fields, inst) ==
  {Invalid("required", fn) : fn \in
     {n \in DOMAIN fields :
        /\ fields[n].Required
        /\ \/ n \notin BsonNames
           \/ IsZero(inst, GoFieldOf(n))}}

\* second loop: Min/Max of the numeric members found in the document
\* the Min check passing a member that is zero
BelowMinUnlessZero(fields, inst, n) ==
  /\ n \in BsonNames
  /\ FieldKind[GoFieldOf(n)] = "int"
  /\ fields[n].Min # 0
  /\ inst[GoFieldOf(n)] # 0
  /\ inst[GoFieldOf(n)] < fields[n].Min

BelowMin(fields, inst, n) ==
  /\ n \in BsonNames
  /\ FieldKind[GoFieldOf(n)] = "int"
  /\ fields[n].Min # 0
  /\ inst[GoFieldOf(n)] < fields[n].Min

\* the Max check left out
AboveMaxNever(fields, inst, n) == FALSE

AboveMax(fields, inst, n) ==
  /\ n \in BsonNames
  /\ FieldKind[GoFieldOf(n)] = "int"
  /\ fields[n].Max # 0
  /\ inst[GoFieldOf(n)] > fields[n].Max

BoundViolations(fields, inst) ==
  {Invalid("min", n) : n \in {m \in DOMAIN fields : BelowMin(fields, inst, m)}}
  \cup
  {Invalid("max", n) : n \in {m \in DOMAIN fields :
                                 /\ ~BelowMin(fields, inst, m)
                                 /\ AboveMax(fields, inst, m)}}

\* The errors defaultValidation can return for the instance: the map of
\* fields is ranged over in an unspecified order, so any violation of the
\* first loop may be the one returned, and one of the second loop only when
\* the first loop found none.
defaultValidation(fields, inst) ==
  IF RequiredViolations(fields, inst) # {}
    THEN RequiredViolations(fields, inst)
  ELSE IF BoundViolations(fields, inst) # {}
    THEN BoundViolations(fields, inst)
  ELSE {Valid}

\* the CustomValidator of TestValidateDocumentCalls
customAgeName(inst) ==
  IF inst.Age < MinAge THEN Invalid("custom", "age must be at least 18")
  ELSE IF inst.Age > MaxAge THEN Invalid("custom", "age must be at most 100")
  ELSE IF inst.Name = "" THEN Invalid("custom", "name cannot be empty")
  ELSE Valid

\* a CustomValidator that relates two fields: the name "al" goes with an
\* age below 40 only
customNameWithAge(inst) ==
  IF inst.Name = "al" /\ inst.Age >= 40
    THEN Invalid("custom", "al must be younger than 40")
    ELSE Valid

\* the CustomValidator left aside
ValidateDocumentDefaultOnly(s, inst) == defaultValidation(s.Fields, inst)

\* the results ValidateDocument can return
ValidateDocument(s, inst) ==
  IF s.CustomValidator = "nameWithAge"
    THEN {customNameWithAge(inst)}
  ELSE IF s.CustomValidator # "none"
    THEN {customAgeName(inst)}
    ELSE defaultValidation(s.Fields, inst)

----------------------------------------------------------------------------
(* Record types as reflect shows them *)

\* reflect.Type of the types the fields are declared with: Kind, whether
\* PkgPath is non-empty (a named type of some package), and the element type
TypeInfo ==
  [string |-> [Kind |-> "string", Named |-> FALSE, Elem |-> ""],
   int |-> [Kind |-> "int", Named |-> FALSE, Elem |-> ""],
   uint |-> [Kind |-> "uint", Named |-> FALSE, Elem |-> ""],
   ObjectID |-> [Kind |-> "array", Named |-> TRUE, Elem |-> ""],
   NestedStruct |-> [Kind |-> "struct", Named |-> TRUE, Elem |-> ""],
   base |-> [Kind |-> "struct", Named |-> TRUE, Elem |-> ""],
   RecursiveStruct |-> [Kind |-> "struct", Named |-> TRUE, Elem |-> ""],
   PtrRecursiveStruct |-> [Kind |-> "ptr", Named |-> FALSE, Elem |-> "RecursiveStruct"],
   SliceRecursiveStruct |-> [Kind |-> "slice", Named |-> FALSE, Elem |-> "RecursiveStruct"]]

\* one option of a schema tag, as strings.Split leaves it: blanks around it
\* or not, the text up to an "=", and the text after the "=" if it has one
Opt(key) == [pad |-> FALSE, key |-> key, eq |-> FALSE, arg |-> ""]
OptArg(key, arg) == [pad |-> FALSE, key |-> key, eq |-> TRUE, arg |-> arg]
Padded(o) == [o EXCEPT !.pad = TRUE]

\* a struct tag `bson:"..."`: whether the field has one, its first part (the
\* name) and whether more parts (omitempty) follow
NoBson == [set |-> FALSE, name |-> "", more |-> FALSE]
Bson(name) == [set |-> TRUE, name |-> name, more |-> FALSE]
BsonOmitEmpty(name) == [set |-> TRUE, name |-> name, more |-> TRUE]

\* reflect.StructField
Decl(name, type, bson, tag) ==
  [Name |-> name, Exported |-> TRUE, Anonymous |-> FALSE, Type |-> type,
   Bson |-> bson, Schema |-> tag]

Embedded(type, exported) ==
  [Name |-> type, Exported |-> exported, Anonymous |-> TRUE, Type |-> type,
   Bson |-> NoBson, Schema |-> <<>>]

Private(d) == [d EXCEPT !.Exported = FALSE]

Required1 == <<Opt("required")>>

\* the fields of the struct types of the tests that other types embed or
\* point to
NestedStructFields ==
  <<Decl("Field1", "string", NoBson, Required1),
    Decl("Field2", "int", NoBson, <<OptArg("min", "1"), OptArg("max", "10")>>)>>

baseFields == <<Decl("Code", "string", NoBson, Required1)>>

RecursiveStructFields ==
  <<Decl("ID", "ObjectID", BsonOmitEmpty("_id"), <<>>),
    Decl("Name", "string", NoBson, Required1),
    Decl("Parent", "PtrRecursiveStruct", NoBson, <<>>),
    Decl("Children", "SliceRecursiveStruct", NoBson, <<>>)>>

\* reflect.Type.NumField and Field of a named struct type
StructFields(type) ==
  CASE type = "NestedStruct" -> NestedStructFields
    [] type = "base" -> baseFields
    [] type = "RecursiveStruct" -> RecursiveStructFields
    [] OTHER -> <<>>

\* The field declarations the struct types under test are made of, in the
\* order in which a type declares those it has
FieldPool ==
  <<Decl("ID", "ObjectID", BsonOmitEmpty("_id"), <<>>),
    Decl("Identifier", "ObjectID", BsonOmitEmpty("_id"), <<>>),
    Decl("Name", "string", NoBson, Required1),
    Decl("Name", "string", NoBson,
         <<Opt("required"), Opt("unique"), OptArg("min", "2"), OptArg("max", "100")>>),
    Decl("Name", "string", Bson("fullName"), <<Opt("required"), Padded(Opt("index"))>>),
    Decl("Email", "string", Bson("email"), <<Opt("required"), Opt("unique")>>),
    Decl("Status", "string", NoBson, <<Opt("unknown_tag"), Opt("min"), OptArg("required", "true")>>),
    Decl("Age", "int", Bson("age"), <<OptArg("min", "13"), OptArg("max", "120")>>),
    Decl("Age", "int", NoBson, <<OptArg("min", "18"), OptArg("min", "21")>>),
    Decl("Age", "int", NoBson, <<OptArg("min", "invalid"), OptArg("max", "120")>>),
    Decl("Balance", "int", NoBson, <<OptArg("min", "0"), OptArg("max", "10")>>),
    Decl("Count", "uint", NoBson, <<OptArg("min", "2")>>),
    Decl("InternalID", "string", Bson("-"), Required1),
    Decl("Notes", "string", BsonOmitEmpty(""), Required1),
    Private(Decl("secret", "string", NoBson, Required1)),
    Embedded("NestedStruct", TRUE),
    Embedded("base", FALSE),
    Embedded("string", FALSE),
    Decl("Field1", "string", NoBson, <<Opt("unique")>>)>>

\* the most fields a struct type under test declares
MaxFields == 2

\* the members of the pool at the positions idx, in the order of the pool
RECURSIVE Pick(_, _)
Pick(idx, from) ==
  IF from > Len(FieldPool) THEN <<>>
  ELSE IF from \in idx THEN <<FieldPool[from]>> \o Pick(idx, from + 1)
  ELSE Pick(idx, from + 1)

\* struct types: the declared names are distinct, as the compiler demands
StructTypes ==
  {RecursiveStructFields} \cup
  {Pick(idx, 1) : idx \in
     {x \in SUBSET (1..Len(FieldPool)) :
        /\ Cardinality(x) \in 1..MaxFields
        /\ \A i, j \in x : FieldPool[i].Name = FieldPool[j].Name => i = j}}

----------------------------------------------------------------------------
(* Schema derivation: parseSchemaTag, GetZeroValue, GenerateFromStruct *)

\* fmt.Sscanf(opt, "min=%d", &n) on the text after the "=": the leading
\* decimal digits, and 0 when there are none
Sscanf(arg) ==
  CASE arg = "0" -> 0
    [] arg = "1" -> 1
    [] arg = "2" -> 2
    [] arg = "10" -> 10
    [] arg = "13" -> 13
    [] arg = "18" -> 18
    [] arg = "21" -> 21
    [] arg = "100" -> 100
    [] arg = "120" -> 120
    [] OTHER -> 0

NoTag == [Required |-> FALSE, Unique |-> FALSE, Min |-> 0, Max |-> 0, Index |-> FALSE]

\* one round of the loop of parseSchemaTag; TrimSpace has removed the blanks
\* around the option before the switch looks at it
parseOption(result, o) ==
  CASE o.key = "required" /\ ~o.eq -> [result EXCEPT !.Required = TRUE]
    [] o.key = "unique" /\ ~o.eq -> [result EXCEPT !.Unique = TRUE]
    [] o.key = "index" /\ ~o.eq -> [result EXCEPT !.Index = TRUE]
    [] o.key = "min" /\ o.eq -> [result EXCEPT !.Min = Sscanf(o.arg)]
    [] o.key = "max" /\ o.eq -> [result EXCEPT !.Max = Sscanf(o.arg)]
    [] OTHER -> result

RECURSIVE parseOptions(_, _)
parseOptions(result, options) ==
  IF options = <<>> THEN result
  ELSE parseOptions(parseOption(result, Head(options)), Tail(options))

parseSchemaTag(tag) == parseOptions(NoTag, tag)

\* a pointer resolved to the zero value of the struct it points to
GetZeroValueFollowsPointer(type) ==
  IF type = "ObjectID" THEN [v |-> "zero", type |-> "ObjectID"]
  ELSE IF TypeInfo[type].Named THEN [v |-> "zero", type |-> type]
  ELSE CASE TypeInfo[type].Kind \in {"int", "uint", "string", "struct"} ->
              [v |-> "zero", type |-> TypeInfo[type].Kind]
         [] TypeInfo[type].Kind = "slice" -> [v |-> "empty", type |-> type]
         [] TypeInfo[type].Kind = "ptr" -> [v |-> "zero", type |-> TypeInfo[type].Elem]
         [] OTHER -> NilValue

GetZeroValue(type) ==
  IF type = "ObjectID" THEN [v |-> "zero", type |-> "ObjectID"]
  ELSE IF TypeInfo[type].Named THEN [v |-> "zero", type |-> type]
  ELSE CASE TypeInfo[type].Kind \in {"int", "uint", "string", "struct"} ->
              [v |-> "zero", type |-> TypeInfo[type].Kind]
         [] TypeInfo[type].Kind = "slice" -> [v |-> "empty", type |-> type]
         [] OTHER -> NilValue

\* the name GenerateFromStruct files the field under: the first part of the
\* bson tag if it has one, else the name of the field
fieldName(field) ==
  IF field.Bson.set /\ field.Bson.name # "" THEN field.Bson.name ELSE field.Name

\* field.Name == "ID" || strings.HasPrefix(bsonTag, "_id")
IsIDField(field) ==
  field.Name = "ID" \/ (field.Bson.set /\ field.Bson.name = "_id")

\* Index taken from the index option alone
fieldDefIndexAlone(field) ==
  LET schemaTag == parseSchemaTag(field.Schema)
  IN  [NoField EXCEPT !.Type = GetZeroValue(field.Type),
                      !.Required = schemaTag.Required,
                      !.Unique = schemaTag.Unique,
                      !.Index = schemaTag.Index,
                      !.Min = schemaTag.Min,
                      !.Max = schemaTag.Max]

fieldDef(field) ==
  LET schemaTag == parseSchemaTag(field.Schema)
  IN  [NoField EXCEPT !.Type = GetZeroValue(field.Type),
                      !.Required = schemaTag.Required,
                      !.Unique = schemaTag.Unique,
                      !.Index = schemaTag.Index \/ schemaTag.Unique,
                      !.Min = schemaTag.Min,
                      !.Max = schemaTag.Max]

\* anonymous fields skipped, records included
RECURSIVE GenerateFieldsNoEmbedding(_, _)
GenerateFieldsNoEmbedding(t, fields) ==
  IF t = <<>> THEN fields
  ELSE LET field == Head(t)
       IN  IF ~field.Exported \/ IsIDField(field) \/ field.Anonymous
             THEN GenerateFieldsNoEmbedding(Tail(t), fields)
             ELSE GenerateFieldsNoEmbedding(Tail(t),
                    Overlay(fields, Single(fieldName(field), fieldDef(field))))

\* the fields map after the loop of GenerateFromStruct went over the fields
\* of t from the first on, starting from the map fields
RECURSIVE GenerateFields(_, _)
GenerateFields(t, fields) ==
  IF t = <<>> THEN fields
  ELSE LET field == Head(t)
       IN  IF ~field.Exported \/ IsIDField(field)
             THEN GenerateFields(Tail(t), fields)
           ELSE IF field.Anonymous
             THEN IF TypeInfo[field.Type].Kind = "struct"
                    THEN GenerateFields(Tail(t),
                           Overlay(fields,
                                   GenerateFields(StructFields(field.Type), EmptyMap)))
                    ELSE GenerateFields(Tail(t), fields)
           ELSE GenerateFields(Tail(t),
                               Overlay(fields, Single(fieldName(field), fieldDef(field))))

\* schema.New(fields): timestamps on, no middleware, no validator, no witness
New(fields) ==
  [Fields |-> fields, Timestamps |-> TRUE, ModelType |-> FALSE,
   CustomValidator |-> "none", Middlewares |-> <<>>]

GenerateFromStruct(t) == New(GenerateFields(t, EmptyMap))

----------------------------------------------------------------------------
(* Validation of an instance of any struct type *)

\* the values a member of an instance under test takes
Values(field) ==
  CASE field.Type = "string" /\ field.Name = "Name" -> {"", "John", "Bob"}
    [] field.Type = "string" /\ field.Name = "Email" ->
         {"", "test@example.com", "invalid-email"}
    [] field.Type = "string" /\ field.Anonymous -> {""}
    [] field.Type = "string" /\ ~field.Anonymous
         /\ field.Name \notin {"Name", "Email"} -> {"", "x"}
    [] field.Type = "int" /\ field.Name = "Age" -> {0, 10, 25, 130}
    [] field.Type = "int" /\ field.Name # "Age" -> {-5, 0, 5, 50}
    [] field.Type = "uint" -> {0, 1, 7}
    [] field.Type = "ObjectID" -> {"000000000000000000000000"}
    [] field.Type = "NestedStruct" -> [Field1 : {"", "x"}, Field2 : {0, 5, 11}]
    [] field.Type = "base" -> [Code : {"", "c"}]
    [] OTHER -> {"nil"}

\* the instances of the struct type t: a value for every declared field
RECURSIVE Instances(_)
Instances(t) ==
  IF t = <<>> THEN {EmptyMap}
  ELSE {Overlay(rest, Single(Head(t).Name, v)) :
          rest \in Instances(Tail(t)), v \in Values(Head(t))}

\* reflect.Value.IsZero of a value of the type
RECURSIVE IsZeroValue(_, _)
IsZeroValue(type, v) ==
  CASE TypeInfo[type].Kind = "string" -> v = ""
    [] TypeInfo[type].Kind \in {"int", "uint"} -> v = 0
    [] TypeInfo[type].Kind = "array" -> v = "000000000000000000000000"
    [] TypeInfo[type].Kind = "struct" ->
         \A i \in DOMAIN StructFields(type) :
           IsZeroValue(StructFields(type)[i].Type, v[StructFields(type)[i].Name])
    [] OTHER -> v = "nil"

\* the key under which the first loop of defaultValidation files a member:
\* the first part of its bson tag unless that is empty or "-", the name of
\* the field when it has no bson tag; "" for a member it files under no key
memberKey(structField) ==
  IF structField.Bson.set
    THEN IF structField.Bson.name \notin {"", "-"} THEN structField.Bson.name ELSE ""
    ELSE structField.Name

\* bsonToStructField: the member filed under each key, the last one of them
\* when several share it
bsonToStructField(t) ==
  [k \in {memberKey(t[i]) : i \in DOMAIN t} \ {""} |->
     t[CHOOSE i \in DOMAIN t :
         /\ memberKey(t[i]) = k
         /\ \A j \in DOMAIN t : memberKey(t[j]) = k => j <= i]]

\* the loop over the required fields: the errors it can return
requiredErrors(fields, t, inst) ==
  LET members == bsonToStructField(t)
  IN  {Invalid("not found", n) : n \in
         {m \in DOMAIN fields : fields[m].Required /\ m \notin DOMAIN members}}
      \cup
      {Invalid("empty", n) : n \in
         {m \in DOMAIN fields :
            /\ fields[m].Required
            /\ m \in DOMAIN members
            /\ IsZeroValue(members[m].Type, inst[members[m].Name])}}

\* the ValidateFunc of the examples: a non-empty string with an "@"
ValidateFuncHolds(fn, type, v) ==
  fn = "hasAt" => (type = "string" /\ v = "test@example.com")

\* reflect.DeepEqual of the member with one of the Enum values, which are
\* strings
InEnum(enum, type, v) == type = "string" /\ v \in enum

\* the body of the second loop for one field: the rule that fails first, ""
\* when none does
fieldError(field, member, v) ==
  LET kind == TypeInfo[member.Type].Kind
  IN  IF kind = "int" /\ field.Min # 0 /\ v < field.Min THEN "min"
      ELSE IF kind = "int" /\ field.Max # 0 /\ v > field.Max THEN "max"
      ELSE IF field.Enum # NoEnum /\ ~InEnum(field.Enum, member.Type, v) THEN "enum"
      ELSE IF field.ValidateFunc # NoFunc
                /\ ~ValidateFuncHolds(field.ValidateFunc, member.Type, v)
        THEN "custom validation"
      ELSE ""

\* the second loop: the errors it can return
fieldErrors(fields, t, inst) ==
  LET members == bsonToStructField(t)
  IN  {Invalid(fieldError(fields[n], members[n], inst[members[n].Name]), n) : n \in
         {m \in DOMAIN fields \cap DOMAIN members :
            fieldError(fields[m], members[m], inst[members[m].Name]) # ""}}

\* the two loops run as one: whichever error comes first in the order of
\* the map
defaultValidationOfOneLoop(fields, t, inst) ==
  IF requiredErrors(fields, t, inst) \cup fieldErrors(fields, t, inst) # {}
    THEN requiredErrors(fields, t, inst) \cup fieldErrors(fields, t, inst)
    ELSE {Valid}

\* defaultValidation of an instance of the struct type t: the errors it can
\* return, the maps being ranged over in an unspecified order
defaultValidationOf(fields, t, inst) ==
  IF requiredErrors(fields, t, inst) # {} THEN requiredErrors(fields, t, inst)
  ELSE IF fieldErrors(fields, t, inst) # {} THEN fieldErrors(fields, t, inst)
  ELSE {Valid}

\* the whole-document validators of the tests: the error text, "" for nil
CustomValidators == {"emailFormat", "acceptAll"}

RunCustomValidator(name, t, inst) ==
  IF /\ name = "emailFormat"
     /\ \E i \in DOMAIN t : t[i].Name = "Email" /\ t[i].Type = "string"
     /\ inst["Email"] = "invalid-email"
    THEN "invalid email format"
    ELSE ""

\* the built-in checks run after a custom validator that accepted
ValidateDocumentOfAlsoDefault(s, t, inst) ==
  IF s.CustomValidator # "none"
       /\ RunCustomValidator(s.CustomValidator, t, inst) # ""
    THEN {Invalid("custom", RunCustomValidator(s.CustomValidator, t, inst))}
    ELSE defaultValidationOf(s.Fields, t, inst)

\* ValidateDocument of an instance of the struct type t
ValidateDocumentOf(s, t, inst) ==
  IF s.CustomValidator # "none"
    THEN IF RunCustomValidator(s.CustomValidator, t, inst) # ""
           THEN {Invalid("custom", RunCustomValidator(s.CustomValidator, t, inst))}
           ELSE {Valid}
    ELSE defaultValidationOf(s.Fields, t, inst)

----------------------------------------------------------------------------
(* Inputs of the calls *)

\* the most keys one update payload names
MaxPayloadKeys == 2

PayloadKeys == {"name", "age", "createdAt", "CreatedAt", "updatedAt"}

RECURSIVE PayloadMaps(_)
PayloadMaps(ks) ==
  IF ks = {} THEN {EmptyMap}
  ELSE LET k == CHOOSE x \in ks : TRUE
           rest == PayloadMaps(ks \ {k})
       IN  CASE k = "name" -> {Overlay(m, Single(k, v)) : m \in rest, v \in NameValues}
             [] k = "age" -> {Overlay(m, Single(k, v)) : m \in rest, v \in AgeValues}
             [] OTHER -> {Overlay(m, Single(k, CallerTime)) : m \in rest}

PayloadFields ==
  UNION {PayloadMaps(ks) : ks \in {x \in SUBSET PayloadKeys :
                                     Cardinality(x) <= MaxPayloadKeys}}

\* the Go type of the update argument and the fields it carries
Updates ==
  [type : {"map", "bsonM"}, fields : PayloadFields]
  \cup {[type |-> "bsonD", fields |-> Single("age", 25)],
        [type |-> "struct", fields |-> EmptyMap]}

\* the update arguments handed to UpdateWithQuery
QueryUpdates ==
  [type : {"map", "bsonM"},
   fields : {Single("age", 40), Single("age", 130), Single("name", "")}]

\* the struct a caller hands to Create
NewDoc(name, age) ==
  [ID |-> "", Name |-> name, Age |-> age, CreatedAt |-> 0, UpdatedAt |-> 0]

CreateAges == {0, 25}

\* the pre-save middlewares the tests register
MiddlewareLists == {<<>>, <<"defaults">>, <<"fail">>, <<"defaults", "fail">>}

Schemas ==
  [Fields : {SchemaFields}, Timestamps : BOOLEAN, ModelType : BOOLEAN,
   CustomValidator : {"none", "ageName"}, Middlewares : MiddlewareLists]

\* query builders: one that recorded an error, and filters on age
Queries ==
  {[err |-> TRUE, key |-> "", val |-> 0], [err |-> FALSE, key |-> "", val |-> 0]}
  \cup {[err |-> FALSE, key |-> "age", val |-> v] : v \in {25}}

----------------------------------------------------------------------------
(* State *)

VARIABLES
  schema,  \* the model's schema.Schema
  store,   \* the collection: ObjectID -> document
  clock,   \* the wall clock
  pc,      \* where each caller is: "idle", "write" (inside UpdateById,
           \* between FindOne and UpdateOne) or "done" (a call returned)
  call,    \* the locals of a caller inside UpdateById
  ret,     \* what the call of a caller returned
  structType,  \* the record type handed to GenerateFromStruct
  derived,     \* the schema derived from it, once it is derived
  document,    \* the instance last handed to ValidateDocument
  verdict,     \* what that ValidateDocument returned
  builder,     \* one query.Builder
  built,       \* what Build, GetFilter or GetOptions last returned
  session,     \* the driver session of each caller of ExecuteTransaction
  connections,      \* the registry: connection name -> client
  clients,          \* every client connection.Connect made: "connected" or not
  connectionMutex,  \* who holds the RWMutex of the registry
  reg               \* where each caller of the registry functions is

\* the state of the model and its collection
modelVars == <<schema, store, clock, pc, call, ret>>

\* the state of schema derivation and validation
deriveVars == <<structType, derived, document, verdict>>

\* the state of the query builder
queryVars == <<builder, built>>

\* the state of the package merhongo: its connections and their mutex
registryVars == <<connections, clients, connectionMutex, reg>>

vars == <<schema, store, clock, pc, call, ret,
          structType, derived, document, verdict, builder, built, session,
          connections, clients, connectionMutex, reg>>

NoCall == [id |-> "", upd |-> EmptyMap, snap |-> EmptyMap, calls |-> 0]

\* op, id and err: the operation, the identifier string it was given and
\* the kind of the error it returned;
\* detail: the text the error carries; calls: how often the call ran
\* ValidateDocument; n: ModifiedCount.
\* Two observations of the call that the caller does not see:
\* sat: whether the document the call was about (the struct handed to Create
\* as the middlewares left it, the overlay of UpdateById, the overlays of the
\* documents UpdateWithQuery matched) meets the constraints of the schema,
\* "na" when the call got to no such document; overwrote: the keys at which the
\* write replaced a value that was stored after the call had fetched its
\* snapshot
NoRet ==
  [op |-> "", id |-> "", err |-> "nil", detail |-> NoDetail, calls |-> 0,
   n |-> 0, sat |-> "na", overwrote |-> {}]

\* the constraints of SchemaFields, on a stored document: name is required,
\* age lies in MinAge..MaxAge
MeetsConstraints(doc) ==
  /\ "name" \in DOMAIN doc
  /\ doc.name # ""
  /\ "age" \in DOMAIN doc
  /\ doc.age >= MinAge
  /\ doc.age <= MaxAge

Sat(docs) == IF \A d \in docs : MeetsConstraints(d) THEN "ok" ELSE "bad"

\* nothing derived yet, nothing validated yet
NoSchema ==
  [Fields |-> EmptyMap, Timestamps |-> FALSE, ModelType |-> FALSE,
   CustomValidator |-> "none", Middlewares |-> <<>>]

NoDocument == EmptyMap

NoVerdict == [err |-> "", detail |-> NoDetail]

\* query.New(); a nil err is the empty text
NewBuilder ==
  [filter |-> EmptyMap, sort |-> <<>>, limit |-> 0, skip |-> 0, err |-> ""]

\* a nil bson.M and a nil *options.FindOptions
NilFilter == [nil |-> TRUE, m |-> EmptyMap]
NilOptions == [nil |-> TRUE, sort |-> <<>>, limit |-> {}, skip |-> {}]

\* no result of GetFilter, GetOptions or Build in the hands of the caller
NoBuilt == [op |-> "", err |-> "", filter |-> NilFilter, opts |-> NilOptions]

\* a caller outside ExecuteTransaction: where the call stands, the state of
\* the transaction of its session, what fn returned, how often fn, the
\* commit and the abort were called, and the error the call returned
NoSession ==
  [at |-> "idle", txn |-> "none", fn |-> "", ran |-> 0, commits |-> 0,
   aborts |-> 0, err |-> ""]

\* sync.RWMutex with nobody holding it
Unlocked == [writer |-> "", readers |-> {}]

\* a caller outside the functions of the package: the function it is in,
\* where it stands there, the name and the client it holds, what the
\* function returned
NoReg == [op |-> "", at |-> "idle", name |-> "", client |-> 0, err |-> ""]

\* the parts of the state a specification leaves alone
ModelIdle ==
  /\ store = EmptyMap
  /\ clock = 1
  /\ pc = [p \in Procs |-> "idle"]
  /\ call = [p \in Procs |-> NoCall]
  /\ ret = [p \in Procs |-> NoRet]

DeriveIdle ==
  /\ structType = <<>>
  /\ derived = NoSchema
  /\ document = NoDocument
  /\ verdict = NoVerdict

QueryIdle ==
  /\ builder = NewBuilder
  /\ built = NoBuilt

TxnIdle == session = [p \in Procs |-> NoSession]

RegistryIdle ==
  /\ connections = EmptyMap
  /\ clients = <<>>
  /\ connectionMutex = Unlocked
  /\ reg = [p \in Procs |-> NoReg]

Init ==
  /\ schema \in Schemas
  /\ ModelIdle
  /\ DeriveIdle
  /\ QueryIdle
  /\ TxnIdle
  /\ RegistryIdle

\* the call of p returns r
Return(p, r) ==
  /\ pc' = [pc EXCEPT ![p] = "done"]
  /\ call' = [call EXCEPT ![p] = NoCall]
  /\ ret' = [ret EXCEPT ![p] = r]

\* the caller has taken the result and is free for its next call
Ack(p) ==
  /\ pc[p] = "done"
  /\ pc' = [pc EXCEPT ![p] = "idle"]
  /\ ret' = [ret EXCEPT ![p] = NoRet]
  /\ UNCHANGED <<schema, store, clock, call>>
  /\ UNCHANGED <<deriveVars, queryVars, session, registryVars>>

\* time passes
Tick ==
  /\ clock < MaxClock
  /\ clock' = clock + 1
  /\ UNCHANGED <<schema, store, pc, call, ret>>
  /\ UNCHANGED <<deriveVars, queryVars, session, registryVars>>

----------------------------------------------------------------------------
(* The driver *)

\* any string taken for an identifier
ObjectIDFromHexLax(id) == [ok |-> TRUE, oid |-> id]

\* primitive.ObjectIDFromHex
ObjectIDFromHex(id) ==
  IF id \in ValidIds THEN [ok |-> TRUE, oid |-> id]
  ELSE [ok |-> FALSE, oid |-> ""]

\* Collection.FindOne(filter {_id: oid}) decoded into a bson.M
FindOne(st, oid) ==
  IF oid \in DOMAIN st THEN [found |-> TRUE, doc |-> st[oid]]
  ELSE [found |-> FALSE, doc |-> EmptyMap]

\* the keys that are dotted paths, with the embedded document and the field
\* in it they name
DottedPaths == Single("address.city", <<"address", "city">>)

\* update operators: names the server takes no field of a $set to have
OperatorNames == {"$inc"}

\* the server refuses a $set document with a field named like an operator
RejectsSet(set) == DOMAIN set \cap OperatorNames # {}

\* $set of one key: a dotted path sets the field of the embedded document,
\* which it makes if there is none; any other key sets the top-level field
SetField(doc, k, v) ==
  IF k \in DOMAIN DottedPaths
    THEN LET parent == DottedPaths[k][1]
             leaf == DottedPaths[k][2]
         IN  Overlay(doc, Single(parent,
                                 IF parent \in DOMAIN doc
                                   THEN Overlay(doc[parent], Single(leaf, v))
                                   ELSE Single(leaf, v)))
    ELSE Overlay(doc, Single(k, v))

RECURSIVE ApplySet(_, _, _)
ApplySet(doc, set, keys) ==
  IF keys = {} THEN doc
  ELSE LET k == CHOOSE x \in keys : TRUE
       IN  ApplySet(SetField(doc, k, set[k]), set, keys \ {k})

\* Collection.UpdateOne(filter {_id: oid}, {$set: set}), no upsert
UpdateOne(st, oid, set) ==
  IF oid \in DOMAIN st THEN [st EXCEPT ![oid] = ApplySet(st[oid], set, DOMAIN set)]
  ELSE st

\* Collection.InsertOne of a struct under the generated ObjectID
InsertOne(st, oid, inst) ==
  [i \in DOMAIN st \cup {oid} |-> IF i = oid THEN MarshalStruct(inst) ELSE st[i]]

\* Collection.DeleteOne(filter {_id: oid})
DeleteOne(st, oid) == [i \in DOMAIN st \ {oid} |-> st[i]]

\* the filter a query builder built matches the document
Matches(q, doc) ==
  \/ q.key = ""
  \/ q.key \in DOMAIN doc /\ doc[q.key] = q.val

\* Collection.UpdateMany(filter, {$set: set})
UpdateMany(st, q, set) ==
  [i \in DOMAIN st |-> IF Matches(q, st[i]) THEN Overlay(st[i], set) ELSE st[i]]

\* UpdateResult.ModifiedCount
ModifiedCount(st, q, set) ==
  Cardinality({i \in DOMAIN st : Matches(q, st[i]) /\ Overlay(st[i], set) # st[i]})

----------------------------------------------------------------------------
(* model.Model *)

\* the default the defaults middleware fills in
DefaultAge == 18

\* one pre-save middleware: its error text ("" for nil) and the document
\* as it leaves it
RunMiddleware(mw, doc) ==
  CASE mw = "fail" -> [err |-> "middleware failed", doc |-> doc]
    [] mw = "defaults" ->
         [err |-> "",
          doc |-> IF doc.Age = 0 THEN [doc EXCEPT !.Age = DefaultAge] ELSE doc]
    [] OTHER -> [err |-> "", doc |-> doc]

\* the loop going on after a middleware failed
RECURSIVE applyMiddlewaresGoOn(_, _)
applyMiddlewaresGoOn(mws, doc) ==
  IF mws = <<>> THEN [err |-> "nil", detail |-> NoDetail, doc |-> doc]
  ELSE applyMiddlewaresGoOn(Tail(mws), RunMiddleware(Head(mws), doc).doc)

RECURSIVE applyMiddlewares(_, _)
applyMiddlewares(mws, doc) ==
  IF mws = <<>> THEN [err |-> "nil", detail |-> NoDetail, doc |-> doc]
  ELSE LET r == RunMiddleware(Head(mws), doc)
       IN  IF r.err # ""
             THEN [err |-> "ErrMiddleware", detail |-> <<"middleware", r.err>>,
                   doc |-> r.doc]
             ELSE applyMiddlewares(Tail(mws), r.doc)

addTimestamps(s, doc, isNew, now) ==
  IF ~s.Timestamps THEN doc
  ELSE [doc EXCEPT !.CreatedAt = IF isNew THEN now ELSE @, !.UpdatedAt = now]

\* the types prepareUpdate converts to a map
MapTypes == {"map", "bsonM", "bsonD"}

\* createdAt left in the update
prepareUpdateKeepsCreatedAt(s, update, now) ==
  IF update.type \notin MapTypes
    THEN [err |-> "ErrValidation", upd |-> EmptyMap]
    ELSE [err |-> "nil",
          upd |-> IF s.Timestamps
                    THEN Overlay(update.fields, Single("updatedAt", now))
                    ELSE update.fields]

prepareUpdate(s, update, now) ==
  IF update.type \notin MapTypes
    THEN [err |-> "ErrValidation", upd |-> EmptyMap]
    ELSE LET stripped == Without(update.fields, {"createdAt", "CreatedAt"})
         IN  [err |-> "nil",
              upd |-> IF s.Timestamps
                        THEN Overlay(stripped, Single("updatedAt", now))
                        ELSE stripped]

\* the test of the type witness inverted
RevalidatesWithoutWitness(s) == ~s.ModelType

\* UpdateById revalidates only with a type witness
Revalidates(s) == s.ModelType

Create(p, doc) ==
  /\ pc[p] = "idle"
  /\ LET mw == applyMiddlewares(schema.Middlewares, doc)
         r == [NoRet EXCEPT !.op = "Create",
                            !.sat = Sat({MarshalStruct(mw.doc)})]
     IN  IF mw.err # "nil"
           THEN /\ Return(p, [r EXCEPT !.err = mw.err, !.detail = mw.detail])
                /\ UNCHANGED store
           ELSE \E v \in ValidateDocument(schema, mw.doc) :
                  IF v.err # "nil"
                    THEN /\ Return(p, [r EXCEPT !.err = "ErrValidation",
                                                !.detail = v.detail,
                                                !.calls = 1])
                         /\ UNCHANGED store
                    ELSE \E oid \in ValidIds \ DOMAIN store :
                           /\ store' = InsertOne(store, oid,
                                 addTimestamps(schema, mw.doc, TRUE, clock))
                           /\ Return(p, [r EXCEPT !.calls = 1])
  /\ UNCHANGED <<schema, clock>>
  /\ UNCHANGED <<deriveVars, queryVars, session, registryVars>>

\* UpdateById up to and including the validation of the overlay
UpdateByIdFetch(p, id, update) ==
  /\ pc[p] = "idle"
  /\ LET parsed == ObjectIDFromHex(id)
         found == FindOne(store, parsed.oid)
         prep == prepareUpdate(schema, update, clock)
         hypo == Overlay(found.doc, prep.upd)
         r == [NoRet EXCEPT !.op = "UpdateById", !.id = id,
                            !.sat = IF parsed.ok /\ found.found /\ prep.err = "nil"
                                      THEN Sat({hypo}) ELSE "na"]
         pending == [id |-> id, upd |-> prep.upd, snap |-> found.doc,
                     calls |-> 0]
     IN  IF ~parsed.ok
           THEN Return(p, [r EXCEPT !.err = "ErrInvalidObjectID"])
         ELSE IF ~found.found
           THEN Return(p, [r EXCEPT !.err = "ErrNotFound"])
         ELSE IF prep.err # "nil"
           THEN Return(p, [r EXCEPT !.err = prep.err])
         ELSE IF Revalidates(schema)
           THEN \E v \in ValidateDocument(schema, UnmarshalStruct(parsed.oid, hypo)) :
                  IF v.err # "nil"
                    THEN Return(p, [r EXCEPT !.err = v.err, !.detail = v.detail,
                                             !.calls = 1])
                    ELSE /\ pc' = [pc EXCEPT ![p] = "write"]
                         /\ call' = [call EXCEPT ![p] = [pending EXCEPT !.calls = 1]]
                         /\ UNCHANGED ret
         ELSE /\ pc' = [pc EXCEPT ![p] = "write"]
              /\ call' = [call EXCEPT ![p] = pending]
              /\ UNCHANGED ret
  /\ UNCHANGED <<schema, store, clock>>
  /\ UNCHANGED <<deriveVars, queryVars, session, registryVars>>

\* the whole overlay written back
WriteSetOverlay(c) == Overlay(c.snap, c.upd)

\* the $set document of the UpdateOne: the prepared update
WriteSet(c) == c.upd

\* the keys of the update at which the stored value is no longer the one of
\* the snapshot, nor the one the update sets
Overwrites(st, c) ==
  IF c.id \notin DOMAIN st THEN {}
  ELSE {k \in DOMAIN c.upd \cap DOMAIN c.snap \cap DOMAIN st[c.id] :
          /\ st[c.id][k] # c.snap[k]
          /\ st[c.id][k] # c.upd[k]}

\* the write filtered on the snapshot: a call whose document changed since
\* its FindOne matches nothing and reports it
UpdateByIdWriteIfUnchanged(p) ==
  /\ pc[p] = "write"
  /\ LET oid == ObjectIDFromHex(call[p].id).oid
         r == [NoRet EXCEPT !.op = "UpdateById", !.id = call[p].id,
                            !.calls = call[p].calls]
     IN  IF oid \in DOMAIN store /\ store[oid] = call[p].snap
           THEN /\ store' = UpdateOne(store, oid, WriteSet(call[p]))
                /\ Return(p, r)
           ELSE /\ UNCHANGED store
                /\ Return(p, [r EXCEPT !.err = "ErrNotFound"])
  /\ UNCHANGED <<schema, clock>>
  /\ UNCHANGED <<deriveVars, queryVars, session, registryVars>>

\* UpdateById from the UpdateOne on
UpdateByIdWrite(p) ==
  /\ pc[p] = "write"
  /\ IF RejectsSet(WriteSet(call[p]))
       THEN /\ UNCHANGED store
            /\ Return(p, [NoRet EXCEPT !.op = "UpdateById", !.id = call[p].id,
                                       !.calls = call[p].calls,
                                       !.err = "ErrDatabase"])
       ELSE /\ store' = UpdateOne(store, ObjectIDFromHex(call[p].id).oid,
                                  WriteSet(call[p]))
            /\ Return(p, [NoRet EXCEPT !.op = "UpdateById", !.id = call[p].id,
                                       !.calls = call[p].calls,
                                       !.sat = Sat({Overlay(call[p].snap, call[p].upd)}),
                                       !.overwrote = Overwrites(store, call[p])])
  /\ UNCHANGED <<schema, clock>>
  /\ UNCHANGED <<deriveVars, queryVars, session, registryVars>>

UpdateWithQuery(p, q, update) ==
  /\ pc[p] = "idle"
  /\ LET r == [NoRet EXCEPT !.op = "UpdateWithQuery",
                            !.sat = IF q.err THEN "na"
                                    ELSE Sat({Overlay(store[i], update.fields) :
                                              i \in {j \in DOMAIN store :
                                                       Matches(q, store[j])}})]
     IN  IF q.err
           THEN /\ Return(p, [r EXCEPT !.err = "ErrValidation"])
                /\ UNCHANGED store
         ELSE IF update.type = "map"
           THEN /\ store' = UpdateMany(store, q, update.fields)
                /\ Return(p, [r EXCEPT !.n = ModifiedCount(store, q, update.fields)])
         ELSE /\ Return(p, [r EXCEPT !.err = "ErrDatabase"])
              /\ UNCHANGED store
  /\ UNCHANGED <<schema, clock>>
  /\ UNCHANGED <<deriveVars, queryVars, session, registryVars>>

DeleteById(p, id) ==
  /\ pc[p] = "idle"
  /\ LET parsed == ObjectIDFromHex(id)
         r == [NoRet EXCEPT !.op = "DeleteById", !.id = id]
     IN  IF ~parsed.ok
           THEN /\ Return(p, [r EXCEPT !.err = "ErrInvalidObjectID"])
                /\ UNCHANGED store
         ELSE IF parsed.oid \notin DOMAIN store
           THEN /\ Return(p, [r EXCEPT !.err = "ErrNotFound"])
                /\ UNCHANGED store
         ELSE /\ store' = DeleteOne(store, parsed.oid)
              /\ Return(p, r)
  /\ UNCHANGED <<schema, clock>>
  /\ UNCHANGED <<deriveVars, queryVars, session, registryVars>>

----------------------------------------------------------------------------
(* Deriving a schema from a struct type and validating instances with it *)

\* schema := GenerateFromStruct(T{})
Generate ==
  /\ derived = NoSchema
  /\ derived' = GenerateFromStruct(structType)
  /\ UNCHANGED <<structType, document, verdict>>
  /\ UNCHANGED <<modelVars, queryVars, session, registryVars>>

\* schema.CustomValidator = func(doc interface{}) error {...}
SetCustomValidator(name) ==
  /\ derived # NoSchema
  /\ verdict = NoVerdict
  /\ derived.CustomValidator = "none"
  /\ derived' = [derived EXCEPT !.CustomValidator = name]
  /\ UNCHANGED <<structType, document, verdict>>
  /\ UNCHANGED <<modelVars, queryVars, session, registryVars>>

\* the Enum the tests put on a derived field
TestEnum == {"John", "Jane", "Joe"}

\* field := schema.Fields[n]; field.Enum = ...; field.ValidateFunc = ...;
\* schema.Fields[n] = field
Customize(n, enum, fn) ==
  /\ derived # NoSchema
  /\ verdict = NoVerdict
  /\ n \in DOMAIN derived.Fields
  /\ derived.Fields[n].Enum = NoEnum
  /\ derived.Fields[n].ValidateFunc = NoFunc
  /\ derived' = [derived EXCEPT !.Fields[n].Enum = enum,
                                !.Fields[n].ValidateFunc = fn]
  /\ UNCHANGED <<structType, document, verdict>>
  /\ UNCHANGED <<modelVars, queryVars, session, registryVars>>

\* err := schema.ValidateDocument(&inst)
Validate(inst) ==
  /\ derived # NoSchema
  /\ verdict = NoVerdict
  /\ \E v \in ValidateDocumentOf(derived, structType, inst) :
       /\ document' = inst
       /\ verdict' = v
  /\ UNCHANGED <<structType, derived>>
  /\ UNCHANGED <<modelVars, queryVars, session, registryVars>>

----------------------------------------------------------------------------
(* Specifications *)

Step(p) ==
  \/ \E name \in NameValues, age \in CreateAges : Create(p, NewDoc(name, age))
  \/ \E id \in IdStrings, u \in Updates : UpdateByIdFetch(p, id, u)
  \/ UpdateByIdWrite(p)
  \/ \E q \in Queries, u \in QueryUpdates : UpdateWithQuery(p, q, u)
  \/ \E id \in IdStrings : DeleteById(p, id)
  \/ Ack(p)

\* one caller at a time: every call returns before the next one starts
Next ==
  \/ Tick
  \/ Step("p1")

Spec == Init /\ [][Next]_vars

\* model.NewGeneric[T]: schema.ModelType = &modelType
NewGeneric(s) == [s EXCEPT !.ModelType = TRUE]

\* what merhongo.ModelNew[T] does to the schema it hands to model.New: the
\* CustomValidator of the options, if there is one, replaces the schema's
ApplyModelOptions(s, CustomValidator) ==
  IF CustomValidator # "none" THEN [s EXCEPT !.CustomValidator = CustomValidator]
  ELSE s

\* One caller of a model built by merhongo.ModelNew[T] from a schema of
\* schema.New, which has no ModelType

ModelNewInit ==
  /\ Init
  /\ \E s \in Schemas, CustomValidator \in {"none", "ageName"} :
       /\ ~s.ModelType
       /\ schema = ApplyModelOptions(s, CustomValidator)

SpecModelNew == ModelNewInit /\ [][Next]_vars

\* Concurrent callers of one model built by NewGeneric, with the default
\* validator and without middlewares

RaceUpdates ==
  [type : {"bsonM"},
   fields : {Single("age", 25), Single("age", 40), Single("age", 130),
             Single("name", "al")}]

RaceInit ==
  /\ Init
  /\ schema.ModelType
  /\ schema.CustomValidator = "none"
  /\ schema.Middlewares = <<>>

RaceStep(p) ==
  \/ Create(p, NewDoc("bob", 25))
  \/ \E id \in ValidIds, u \in RaceUpdates : UpdateByIdFetch(p, id, u)
  \/ UpdateByIdWrite(p)
  \/ Ack(p)

RaceNext ==
  \/ Tick
  \/ \E p \in Procs : RaceStep(p)

SpecRace == RaceInit /\ [][RaceNext]_vars

\* Concurrent callers of one model built by NewGeneric whose schema has a
\* custom validator that relates the name and the age

RelateInit ==
  /\ schema = [NewGeneric(New(SchemaFields)) EXCEPT !.CustomValidator = "nameWithAge"]
  /\ ModelIdle
  /\ DeriveIdle
  /\ QueryIdle
  /\ TxnIdle
  /\ RegistryIdle

SpecRelate == RelateInit /\ [][RaceNext]_vars

\* Concurrent callers of one model built by NewGeneric, some of whom delete

DeleteNext ==
  \/ Tick
  \/ \E p \in Procs :
       \/ RaceStep(p)
       \/ \E id \in ValidIds : DeleteById(p, id)

SpecDelete == RaceInit /\ [][DeleteNext]_vars

\* One caller of a model built by NewGeneric whose updates also carry a
\* dotted path or the name of an update operator as a key

PathUpdates ==
  [type : {"bsonM"},
   fields : {Single("age", 40), Single("age", 130),
             Single("address.city", "x"), Single("address.city", "y"),
             Overlay(Single("name", "al"), Single("address.city", "x")),
             Single("$inc", Single("age", 5))}]

PathsInit ==
  /\ schema = NewGeneric(New(SchemaFields))
  /\ ModelIdle
  /\ DeriveIdle
  /\ QueryIdle
  /\ TxnIdle
  /\ RegistryIdle

PathsNext ==
  \/ Tick
  \/ Create("p1", NewDoc("bob", 25))
  \/ \E id \in ValidIds, u \in PathUpdates : UpdateByIdFetch("p1", id, u)
  \/ UpdateByIdWrite("p1")
  \/ Ack("p1")

SpecPaths == PathsInit /\ [][PathsNext]_vars

(* query.Builder *)

\* the largest limit and skip passed to the builder
MaxLimit == 1

\* keys, operators, values and limits the callers pass
QueryKeys == {"", "name", "age"}
QueryOperators == {"", "$gt"}
QueryValues == {"v1"}
RegexOptions == {<<>>, <<"">>, <<"i">>}
QueryLimits == -1 .. MaxLimit

\* a condition of the filter: a direct value or a bson.M of operators
Direct(value) == [isMap |-> FALSE, value |-> value, m |-> EmptyMap]
OperatorMap(m) == [isMap |-> TRUE, value |-> "", m |-> m]

\* filters handed to MergeFilter
MergeFilters ==
  {NilFilter,
   [nil |-> FALSE, m |-> Single("name", Direct("v1"))],
   [nil |-> FALSE, m |-> Single("age", OperatorMap(Single("$gt", "v1")))]}

\* errors the builder can start with
StartErrors == {"", "invalid id"}

WithError(err) == [NewBuilder EXCEPT !.err = err]

\* the condition under key after operators were added to it
AddOperators(b, key, doc) ==
  IF key \in DOMAIN b.filter /\ b.filter[key].isMap
    THEN OperatorMap(Overlay(b.filter[key].m, doc))
    ELSE OperatorMap(doc)

Where(b, key, value) ==
  IF b.err # "" THEN b
  ELSE IF key = "" THEN [b EXCEPT !.err = "key cannot be empty"]
  ELSE [b EXCEPT !.filter = Overlay(@, Single(key, Direct(value)))]

WhereOperator(b, key, operator, value) ==
  IF b.err # "" THEN b
  ELSE IF key = "" THEN [b EXCEPT !.err = "key cannot be empty"]
  ELSE IF operator = "" THEN [b EXCEPT !.err = "operator cannot be empty"]
  ELSE [b EXCEPT !.filter =
          Overlay(@, Single(key, AddOperators(b, key, Single(operator, value))))]

Regex(b, key, pattern, options) ==
  IF b.err # "" THEN b
  ELSE IF key = "" THEN [b EXCEPT !.err = "key cannot be empty"]
  ELSE LET regexDoc ==
             IF Len(options) > 0 /\ options[1] # ""
               THEN Overlay(Single("$regex", pattern), Single("$options", options[1]))
               ELSE Single("$regex", pattern)
       IN  [b EXCEPT !.filter = Overlay(@, Single(key, AddOperators(b, key, regexDoc)))]

SortBy(b, key, ascending) ==
  IF b.err # "" THEN b
  ELSE IF key = "" THEN [b EXCEPT !.err = "sort key cannot be empty"]
  ELSE LET value == IF ascending THEN 1 ELSE -1
       IN  IF \E i \in DOMAIN b.sort : b.sort[i].Key = key
             THEN LET i == CHOOSE j \in DOMAIN b.sort :
                             /\ b.sort[j].Key = key
                             /\ \A k \in 1 .. j - 1 : b.sort[k].Key # key
                  IN  [b EXCEPT !.sort[i].Value = value]
             ELSE [b EXCEPT !.sort = Append(@, [Key |-> key, Value |-> value])]

\* the limit set with the error of an earlier call standing
LimitUnchecked(b, limit) ==
  IF limit < 0 THEN [b EXCEPT !.err = "limit cannot be negative"]
  ELSE [b EXCEPT !.limit = limit]

Limit(b, limit) ==
  IF b.err # "" THEN b
  ELSE IF limit < 0 THEN [b EXCEPT !.err = "limit cannot be negative"]
  ELSE [b EXCEPT !.limit = limit]

Skip(b, skip) ==
  IF b.err # "" THEN b
  ELSE IF skip < 0 THEN [b EXCEPT !.err = "skip cannot be negative"]
  ELSE [b EXCEPT !.skip = skip]

MergeFilter(b, filter) ==
  IF b.err # "" THEN b
  ELSE IF filter.nil THEN b
  ELSE [b EXCEPT !.filter =
          [key \in DOMAIN b.filter \cup DOMAIN filter.m |->
             IF key \notin DOMAIN filter.m THEN b.filter[key]
             ELSE IF /\ key \in DOMAIN b.filter
                     /\ b.filter[key].isMap
                     /\ filter.m[key].isMap
                    THEN OperatorMap(Overlay(b.filter[key].m, filter.m[key].m))
                    ELSE filter.m[key]]]

\* options.Find() with the sort, limit and skip the builder holds
FindOptions(b) ==
  [nil |-> FALSE,
   sort |-> IF Len(b.sort) > 0 THEN b.sort ELSE <<>>,
   limit |-> IF b.limit > 0 THEN {b.limit} ELSE {},
   skip |-> IF b.skip > 0 THEN {b.skip} ELSE {}]

GetFilter(b) ==
  IF b.err # "" THEN [NoBuilt EXCEPT !.op = "GetFilter", !.err = b.err]
  ELSE [NoBuilt EXCEPT !.op = "GetFilter", !.filter = [nil |-> FALSE, m |-> b.filter]]

GetOptions(b) ==
  IF b.err # "" THEN [NoBuilt EXCEPT !.op = "GetOptions", !.err = b.err]
  ELSE [NoBuilt EXCEPT !.op = "GetOptions", !.opts = FindOptions(b)]

Build(b) ==
  IF b.err # "" THEN [NoBuilt EXCEPT !.op = "Build", !.err = b.err]
  ELSE [NoBuilt EXCEPT !.op = "Build",
                       !.filter = [nil |-> FALSE, m |-> b.filter],
                       !.opts = FindOptions(b)]

\* one more call in the chain: the method returns the builder it changed
Chain(b) ==
  /\ built = NoBuilt
  /\ builder' = b
  /\ UNCHANGED built
  /\ UNCHANGED <<modelVars, deriveVars, session, registryVars>>

\* GetFilter, GetOptions or Build hands its results to the caller
Finish(result) ==
  /\ built = NoBuilt
  /\ built' = result
  /\ UNCHANGED builder
  /\ UNCHANGED <<modelVars, deriveVars, session, registryVars>>

\* the caller is done with the results and goes on with the builder
Discard ==
  /\ built # NoBuilt
  /\ built' = NoBuilt
  /\ UNCHANGED builder
  /\ UNCHANGED <<modelVars, deriveVars, session, registryVars>>

----------------------------------------------------------------------------
(* connection.Client.ExecuteTransaction *)

\* what the fn of a caller returns: nil or an error of its own
FnResults == {"nil", "fake failure in fn", "insufficient funds"}

\* sessionContext.StartTransaction()
StartTransaction(p, ok) ==
  /\ session[p].at = "idle"
  /\ session' =
       [session EXCEPT ![p] =
          IF ok THEN [@ EXCEPT !.at = "started", !.txn = "inProgress"]
          ELSE [@ EXCEPT !.at = "done",
                         !.err = "ErrDatabase: failed to start transaction"]]
  /\ UNCHANGED <<modelVars, deriveVars, queryVars, registryVars>>

\* err = fn(sessionContext)
RunFn(p, result) ==
  /\ session[p].at = "started"
  /\ session' = [session EXCEPT ![p] = [@ EXCEPT !.at = "ran",
                                                 !.fn = result,
                                                 !.ran = @ + 1]]
  /\ UNCHANGED <<modelVars, deriveVars, queryVars, registryVars>>

\* fn failed: AbortTransaction, its own failure only logged, return err
AbortTransaction(p, ok) ==
  /\ session[p].at = "ran"
  /\ session[p].fn # "nil"
  /\ session' = [session EXCEPT ![p] =
                   [@ EXCEPT !.at = "done",
                             !.aborts = @ + 1,
                             !.txn = IF ok THEN "aborted" ELSE @,
                             !.err = session[p].fn]]
  /\ UNCHANGED <<modelVars, deriveVars, queryVars, registryVars>>

\* the commit called whatever fn returned
CommitTransactionWhateverFn(p, ok) ==
  /\ session[p].at = "ran"
  /\ session' = [session EXCEPT ![p] =
                   [@ EXCEPT !.at = "done",
                             !.commits = @ + 1,
                             !.txn = IF ok THEN "committed" ELSE @,
                             !.err = IF ok THEN ""
                                     ELSE "ErrDatabase: failed to commit transaction"]]
  /\ UNCHANGED <<modelVars, deriveVars, queryVars, registryVars>>

\* fn returned nil: CommitTransaction, its failure returned as ErrDatabase
CommitTransaction(p, ok) ==
  /\ session[p].at = "ran"
  /\ session[p].fn = "nil"
  /\ session' = [session EXCEPT ![p] =
                   [@ EXCEPT !.at = "done",
                             !.commits = @ + 1,
                             !.txn = IF ok THEN "committed" ELSE @,
                             !.err = IF ok THEN ""
                                     ELSE "ErrDatabase: failed to commit transaction"]]
  /\ UNCHANGED <<modelVars, deriveVars, queryVars, registryVars>>

\* UseSession ends the session; the next call of the caller gets a new one
EndSession(p) ==
  /\ session[p].at = "done"
  /\ session' = [session EXCEPT ![p] = NoSession]
  /\ UNCHANGED <<modelVars, deriveVars, queryVars, registryVars>>

----------------------------------------------------------------------------
(* package merhongo: the named connections *)

\* the most clients connection.Connect makes in one run
MaxClients == 2

defaultConnectionName == "default"

\* the names callers pass
ConnectionNames == {"", defaultConnectionName, "conn2"}

\* p holds connectionMutex, for writing or for reading
HoldsMutex(p) == connectionMutex.writer = p \/ p \in connectionMutex.readers

\* connectionMutex.Lock() can go on
CanLock == connectionMutex = Unlocked

\* connectionMutex.RLock() can go on
CanRLock == connectionMutex.writer = ""

\* connections[name], nil (0) without an entry
Lookup(name) == IF name \in DOMAIN connections THEN connections[name] ELSE 0

\* the function of p returns err, and the client it made or found
RegReturn(p, client, err) ==
  reg' = [reg EXCEPT ![p] = [@ EXCEPT !.at = "done", !.client = client, !.err = err]]

\* the caller goes on to its next call
RegAck(p) ==
  /\ reg[p].at = "done"
  /\ reg' = [reg EXCEPT ![p] = NoReg]
  /\ UNCHANGED <<connections, clients, connectionMutex>>
  /\ UNCHANGED <<modelVars, deriveVars, queryVars, session>>

\* ConnectWithName up to connectionMutex.Lock(): the name checked, the
\* client made by connection.Connect, which succeeds or fails
ConnectWithName(p, name, ok) ==
  /\ reg[p].at = "idle"
  /\ IF name = ""
       THEN /\ RegReturn(p, 0, "ErrValidation: connection name cannot be empty")
            /\ UNCHANGED clients
       ELSE IF ~ok
         THEN /\ RegReturn(p, 0, "ErrConnection")
              /\ UNCHANGED clients
         ELSE /\ Len(clients) < MaxClients
              /\ clients' = Append(clients, "connected")
              /\ reg' = [reg EXCEPT ![p] =
                           [NoReg EXCEPT !.op = "ConnectWithName", !.at = "lock",
                                         !.name = name, !.client = Len(clients) + 1]]
  /\ UNCHANGED <<connections, connectionMutex>>
  /\ UNCHANGED <<modelVars, deriveVars, queryVars, session>>

\* connectionMutex.Lock() of ConnectWithName, DisconnectAll, DisconnectByName
Lock(p) ==
  /\ reg[p].at = "lock"
  /\ CanLock
  /\ connectionMutex' = [connectionMutex EXCEPT !.writer = p]
  /\ reg' = [reg EXCEPT ![p] = [@ EXCEPT !.at = "locked"]]
  /\ UNCHANGED <<connections, clients>>
  /\ UNCHANGED <<modelVars, deriveVars, queryVars, session>>

\* connections[name] = client; connectionMutex.Unlock(); return client, nil
ConnectWithNameStore(p) ==
  /\ reg[p].at = "locked"
  /\ reg[p].op = "ConnectWithName"
  /\ connections' = Overlay(connections, Single(reg[p].name, reg[p].client))
  /\ connectionMutex' = Unlocked
  /\ RegReturn(p, reg[p].client, "")
  /\ UNCHANGED clients
  /\ UNCHANGED <<modelVars, deriveVars, queryVars, session>>

\* GetConnectionByName up to connectionMutex.RLock()
GetConnectionByName(p, name) ==
  /\ reg[p].at = "idle"
  /\ reg' = [reg EXCEPT ![p] =
               [NoReg EXCEPT !.op = "GetConnectionByName", !.at = "rlock",
                             !.name = name]]
  /\ UNCHANGED <<connections, clients, connectionMutex>>
  /\ UNCHANGED <<modelVars, deriveVars, queryVars, session>>

\* connectionMutex.RLock() of GetConnectionByName
RLock(p) ==
  /\ reg[p].at = "rlock"
  /\ CanRLock
  /\ connectionMutex' = [connectionMutex EXCEPT !.readers = @ \cup {p}]
  /\ reg' = [reg EXCEPT ![p] = [@ EXCEPT !.at = "rlocked"]]
  /\ UNCHANGED <<connections, clients>>
  /\ UNCHANGED <<modelVars, deriveVars, queryVars, session>>

\* return connections[name], with the deferred RUnlock; inside ModelNew the
\* client found gives the db and, unless that is nil, the loop over the
\* connections comes next
GetConnectionByNameRead(p) ==
  /\ reg[p].at = "rlocked"
  /\ connectionMutex' = [connectionMutex EXCEPT !.readers = @ \ {p}]
  /\ IF reg[p].op = "ModelNew" /\ Lookup(reg[p].name) # 0
       THEN reg' = [reg EXCEPT ![p] = [@ EXCEPT !.at = "range",
                                                !.client = Lookup(reg[p].name)]]
       ELSE RegReturn(p, Lookup(reg[p].name), "")
  /\ UNCHANGED <<connections, clients>>
  /\ UNCHANGED <<modelVars, deriveVars, queryVars, session>>

\* ModelNew without a Database in its options: the client of the named or
\* of the default connection is looked up with GetConnectionByName
ModelNew(p, ConnectionName) ==
  /\ reg[p].at = "idle"
  /\ reg' = [reg EXCEPT ![p] =
               [NoReg EXCEPT !.op = "ModelNew", !.at = "rlock",
                             !.name = IF ConnectionName # "" THEN ConnectionName
                                      ELSE defaultConnectionName]]
  /\ UNCHANGED <<connections, clients, connectionMutex>>
  /\ UNCHANGED <<modelVars, deriveVars, queryVars, session>>

\* for _, client := range connections { if client.Database == db {...} }
\* and the return of ModelNew; err tells whether RegisterModel was called
ModelNewRange(p) ==
  /\ reg[p].at = "range"
  /\ RegReturn(p, reg[p].client,
               IF \E name \in DOMAIN connections : connections[name] = reg[p].client
                 THEN "" ELSE "not registered")
  /\ UNCHANGED <<connections, clients, connectionMutex>>
  /\ UNCHANGED <<modelVars, deriveVars, queryVars, session>>

\* DisconnectAll or DisconnectByName up to connectionMutex.Lock()
Disconnecting(p, op, name) ==
  /\ reg[p].at = "idle"
  /\ reg' = [reg EXCEPT ![p] = [NoReg EXCEPT !.op = op, !.at = "lock", !.name = name]]
  /\ UNCHANGED <<connections, clients, connectionMutex>>
  /\ UNCHANGED <<modelVars, deriveVars, queryVars, session>>

DisconnectAll(p) == Disconnecting(p, "DisconnectAll", "")

DisconnectByName(p, name) == Disconnecting(p, "DisconnectByName", name)

\* one round of the loop of DisconnectAll, over the entries in any order:
\* the client disconnects and its entry is deleted, or Disconnect fails and
\* DisconnectAll returns the error with the deferred Unlock
DisconnectAllRound(p, name, ok) ==
  /\ reg[p].at = "locked"
  /\ reg[p].op = "DisconnectAll"
  /\ name \in DOMAIN connections
  /\ IF ok
       THEN /\ clients' = [clients EXCEPT ![connections[name]] = "disconnected"]
            /\ connections' = Without(connections, {name})
            /\ UNCHANGED <<connectionMutex, reg>>
       ELSE /\ connectionMutex' = Unlocked
            /\ RegReturn(p, 0, "ErrConnection: failed to disconnect")
            /\ UNCHANGED <<connections, clients>>
  /\ UNCHANGED <<modelVars, deriveVars, queryVars, session>>

\* the loop of DisconnectAll is over: return nil with the deferred Unlock
DisconnectAllReturn(p) ==
  /\ reg[p].at = "locked"
  /\ reg[p].op = "DisconnectAll"
  /\ connections = EmptyMap
  /\ connectionMutex' = Unlocked
  /\ RegReturn(p, 0, "")
  /\ UNCHANGED <<connections, clients>>
  /\ UNCHANGED <<modelVars, deriveVars, queryVars, session>>

\* DisconnectByName under the lock
DisconnectByNameLocked(p, ok) ==
  /\ reg[p].at = "locked"
  /\ reg[p].op = "DisconnectByName"
  /\ connectionMutex' = Unlocked
  /\ IF reg[p].name \notin DOMAIN connections
       THEN /\ RegReturn(p, 0, "")
            /\ UNCHANGED <<connections, clients>>
       ELSE IF ~ok
         THEN /\ RegReturn(p, 0, "ErrConnection: failed to disconnect")
              /\ UNCHANGED <<connections, clients>>
         ELSE /\ clients' = [clients EXCEPT ![connections[reg[p].name]] = "disconnected"]
              /\ connections' = Without(connections, {reg[p].name})
              /\ RegReturn(p, 0, "")
  /\ UNCHANGED <<modelVars, deriveVars, queryVars, session>>

----------------------------------------------------------------------------
(* Specifications of the derivation, the builder and the transaction *)

\* Schemas derived from struct types, customized as the tests customize
\* them, validating instances of the type

DeriveInit ==
  /\ schema = New(SchemaFields)
  /\ ModelIdle
  /\ structType \in StructTypes
  /\ derived = NoSchema
  /\ document = NoDocument
  /\ verdict = NoVerdict
  /\ QueryIdle
  /\ TxnIdle
  /\ RegistryIdle

DeriveNext ==
  \/ Generate
  \/ \E name \in CustomValidators : SetCustomValidator(name)
  \/ Customize("Name", TestEnum, NoFunc)
  \/ Customize("email", NoEnum, "hasAt")
  \/ \E inst \in Instances(structType) : Validate(inst)

SpecDerive == DeriveInit /\ [][DeriveNext]_vars

\* One builder through a chain of calls, its results taken now and then

QueryInit ==
  /\ schema = New(SchemaFields)
  /\ ModelIdle
  /\ DeriveIdle
  /\ builder \in {WithError(err) : err \in StartErrors}
  /\ built = NoBuilt
  /\ TxnIdle
  /\ RegistryIdle

QueryNext ==
  \/ \E key \in QueryKeys, value \in QueryValues : Chain(Where(builder, key, value))
  \/ \E key \in QueryKeys, operator \in QueryOperators, value \in QueryValues :
       Chain(WhereOperator(builder, key, operator, value))
  \/ \E key \in QueryKeys, options \in RegexOptions :
       Chain(Regex(builder, key, "^a", options))
  \/ \E key \in QueryKeys, ascending \in BOOLEAN :
       Chain(SortBy(builder, key, ascending))
  \/ \E limit \in QueryLimits : Chain(Limit(builder, limit))
  \/ \E skip \in QueryLimits : Chain(Skip(builder, skip))
  \/ \E filter \in MergeFilters : Chain(MergeFilter(builder, filter))
  \/ Finish(GetFilter(builder))
  \/ Finish(GetOptions(builder))
  \/ Finish(Build(builder))
  \/ Discard

SpecQuery == QueryInit /\ [][QueryNext]_vars

\* Callers of ExecuteTransaction, each with a session of its own

TxnInit ==
  /\ schema = New(SchemaFields)
  /\ ModelIdle
  /\ DeriveIdle
  /\ QueryIdle
  /\ TxnIdle
  /\ RegistryIdle

TxnNext ==
  \E p \in Procs :
    \/ \E ok \in BOOLEAN : StartTransaction(p, ok)
    \/ \E result \in FnResults : RunFn(p, result)
    \/ \E ok \in BOOLEAN : AbortTransaction(p, ok)
    \/ \E ok \in BOOLEAN : CommitTransaction(p, ok)
    \/ EndSession(p)

SpecTxn == TxnInit /\ [][TxnNext]_vars

\* Callers of the functions of the package, all on the one registry

RegistryInit ==
  /\ schema = New(SchemaFields)
  /\ ModelIdle
  /\ DeriveIdle
  /\ QueryIdle
  /\ TxnIdle
  /\ RegistryIdle

RegistryNext ==
  \E p \in Procs :
    \/ \E name \in ConnectionNames, ok \in BOOLEAN : ConnectWithName(p, name, ok)
    \/ Lock(p)
    \/ ConnectWithNameStore(p)
    \/ \E name \in ConnectionNames : GetConnectionByName(p, name)
    \/ RLock(p)
    \/ GetConnectionByNameRead(p)
    \/ \E name \in ConnectionNames : ModelNew(p, name)
    \/ ModelNewRange(p)
    \/ DisconnectAll(p)
    \/ \E name \in ConnectionNames : DisconnectByName(p, name)
    \/ \E name \in ConnectionNames, ok \in BOOLEAN : DisconnectAllRound(p, name, ok)
    \/ DisconnectAllReturn(p)
    \/ \E ok \in BOOLEAN : DisconnectByNameLocked(p, ok)
    \/ RegAck(p)

SpecRegistry == RegistryInit /\ [][RegistryNext]_vars

----------------------------------------------------------------------------
(* Properties *)

\* the call of p returns in this step
Returns(p, op) ==
  /\ pc[p] # "done"
  /\ pc'[p] = "done"
  /\ ret'[p].op = op

Returned(p, op) == pc[p] = "done" /\ ret[p].op = op

AnyFails(mws) == \E i \in DOMAIN mws : mws[i] = "fail"

\* C1: on a model with a type witness, an UpdateById whose overlay of the
\* fetched document with the prepared update does not meet the constraints
\* returns a validation error straight from the validation, without having
\* issued the UpdateOne, and leaves the collection as it was.
C1_RejectedUpdateWritesNothing ==
  [][\A p \in Procs :
       (Returns(p, "UpdateById") /\ schema.ModelType /\ ret'[p].sat = "bad")
         => /\ ret'[p].err = "ErrValidation"
            /\ ret'[p].calls = 1
            /\ pc[p] = "idle"
            /\ store' = store]_vars

\* Scenario A: an update was rejected and the stored age is still 25
C1_Witness ==
  \E p \in Procs :
    /\ Returned(p, "UpdateById")
    /\ schema.ModelType
    /\ ret[p].err = "ErrValidation"
    /\ ret[p].detail = <<"max", "age">>
    /\ ret[p].id \in DOMAIN store
    /\ store[ret[p].id].age = 25

\* C2 (as claimed): on a model with a type witness, an UpdateWithQuery for
\* which the overlay of some matching document does not meet the constraints
\* returns a validation error and modifies no document.
C2_QueryUpdateRevalidates ==
  [][\A p \in Procs :
       (Returns(p, "UpdateWithQuery") /\ schema.ModelType /\ ret'[p].sat = "bad")
         => /\ ret'[p].err = "ErrValidation"
            /\ store' = store]_vars

\* C3 (as claimed): on a model with a type witness and the default
\* validator, every stored document meets the constraints of the schema.
C3_StoredDocumentsMeetConstraints ==
  (schema.ModelType /\ schema.CustomValidator = "none")
    => \A i \in DOMAIN store : MeetsConstraints(store[i])

\* C4: the UpdateOne of UpdateById sets the keys of the prepared update in
\* the document of the identifier, if it is stored, and changes nothing else:
\* the other keys of that document keep their values, whatever the snapshot
\* of the call held, and the other documents are as they were.
C4_WriteSetsOnlyPayloadKeys ==
  [][\A p \in Procs :
       (pc[p] = "write" /\ Returns(p, "UpdateById"))
         => LET id == call[p].id
                upd == call[p].upd
            IN  /\ ret'[p].err = "nil"
                /\ DOMAIN store' = DOMAIN store
                /\ \A i \in DOMAIN store \ {id} : store'[i] = store[i]
                /\ id \in DOMAIN store =>
                     /\ DOMAIN store'[id] = DOMAIN store[id] \cup DOMAIN upd
                     /\ \A k \in DOMAIN upd : store'[id][k] = upd[k]
                     /\ \A k \in DOMAIN store[id] \ DOMAIN upd :
                          store'[id][k] = store[id][k]]_vars

\* while a second document is stored, two callers updated one document, the
\* second write came from a snapshot older than the first write, and the
\* document holds the age of the one and the name of the other
C4_Witness ==
  \E p, q \in Procs :
    /\ p # q
    /\ Returned(p, "UpdateById")
    /\ Returned(q, "UpdateById")
    /\ ret[p].err = "nil"
    /\ ret[q].err = "nil"
    /\ ret[p].id = ret[q].id
    /\ "updatedAt" \in ret[q].overwrote
    /\ DOMAIN store = ValidIds
    /\ store[ret[p].id].age = 40
    /\ store[ret[p].id].name = "al"

\* C5: the UpdateOne of UpdateById is issued whatever happened to the
\* document since the call fetched it: the call returns nil, and the keys of
\* its update hold its values, also where they replace a value another
\* caller stored in between.
C5_LaterWriteWins ==
  [][\A p \in Procs :
       (/\ pc[p] = "write"
        /\ Returns(p, "UpdateById")
        /\ call[p].id \in DOMAIN store
        /\ store[call[p].id] # call[p].snap)
         => /\ ret'[p].err = "nil"
            /\ \A k \in DOMAIN call[p].upd :
                 store'[call[p].id][k] = call[p].upd[k]]_vars

\* two callers updated the age of the same document, both got nil, and the
\* second write replaced the age the first had stored after the second had
\* fetched
C5_Witness ==
  \E p, q \in Procs :
    /\ p # q
    /\ Returned(p, "UpdateById")
    /\ Returned(q, "UpdateById")
    /\ ret[p].err = "nil"
    /\ ret[q].err = "nil"
    /\ ret[p].id = ret[q].id
    /\ "age" \in ret[q].overwrote

\* C6: when a pre-save middleware of the schema fails, Create returns the
\* middleware error with the text of the middleware, has not run
\* ValidateDocument and has inserted nothing, also for a document that does
\* not meet the constraints.
C6_MiddlewareFailureStopsCreate ==
  [][\A p \in Procs :
       (Returns(p, "Create") /\ AnyFails(schema.Middlewares))
         => /\ ret'[p].err = "ErrMiddleware"
            /\ ret'[p].detail = <<"middleware", "middleware failed">>
            /\ ret'[p].calls = 0
            /\ store' = store]_vars

\* Create was stopped by a middleware on a document validation would reject
C6_Witness ==
  \E p \in Procs :
    /\ Returned(p, "Create")
    /\ ret[p].err = "ErrMiddleware"
    /\ ret[p].sat = "bad"
    /\ ret[p].calls = 0

\* C7: when no middleware fails and the document, as the middlewares left
\* it, does not meet the constraints, Create returns a validation error and
\* inserts nothing; and every document Create inserts meets the constraints.
C7_InvalidDocumentNotInserted ==
  [][\A p \in Procs :
       Returns(p, "Create")
         => /\ (~AnyFails(schema.Middlewares) /\ ret'[p].sat = "bad")
                 => (ret'[p].err = "ErrValidation" /\ store' = store)
            /\ ret'[p].err # "nil" => store' = store
            /\ \A i \in DOMAIN store' \ DOMAIN store : MeetsConstraints(store'[i])]_vars

\* Create rejected a document whose age is below the Min of the schema
C7_Witness ==
  \E p \in Procs :
    /\ Returned(p, "Create")
    /\ ret[p].err = "ErrValidation"
    /\ ret[p].detail = <<"min", "age">>

\* C8: no step of UpdateById changes the createdAt of a stored document, the
\* prepared update never names createdAt or CreatedAt, and with timestamps
\* enabled the prepared update carries the time of the call as updatedAt,
\* which the UpdateOne stores.
C8_CreatedAtKeptUpdatedAtFresh ==
  [][\A p \in Procs :
       /\ (pc[p] = "idle" /\ pc'[p] = "write")
            => /\ DOMAIN call'[p].upd \cap {"createdAt", "CreatedAt"} = {}
               /\ schema.Timestamps =>
                    /\ "updatedAt" \in DOMAIN call'[p].upd
                    /\ call'[p].upd.updatedAt = clock
       /\ Returns(p, "UpdateById")
            => /\ DOMAIN store' = DOMAIN store
               /\ \A i \in DOMAIN store :
                    /\ ("createdAt" \in DOMAIN store'[i]) = ("createdAt" \in DOMAIN store[i])
                    /\ "createdAt" \in DOMAIN store[i] =>
                         store'[i].createdAt = store[i].createdAt
               /\ (pc[p] = "write" /\ schema.Timestamps /\ call[p].id \in DOMAIN store)
                    => /\ store'[call[p].id].updatedAt = call[p].upd.updatedAt
                       /\ store'[call[p].id].updatedAt \in 1..clock]_vars

\* an UpdateById succeeded on a document whose updatedAt is now later than
\* its createdAt
C8_Witness ==
  \E p \in Procs :
    /\ Returned(p, "UpdateById")
    /\ ret[p].err = "nil"
    /\ schema.Timestamps
    /\ ret[p].id \in DOMAIN store
    /\ store[ret[p].id].updatedAt > store[ret[p].id].createdAt

\* C9: UpdateById returns the invalid-identifier error for a malformed
\* identifier and the not-found error for a well-formed identifier no stored
\* document has; either way it has not run ValidateDocument and has written
\* nothing.
C9_BadIdentifierStopsUpdate ==
  [][\A p \in Procs :
       (pc[p] = "idle" /\ Returns(p, "UpdateById"))
         => /\ ret'[p].id \in MalformedIds
                 => /\ ret'[p].err = "ErrInvalidObjectID"
                    /\ ret'[p].calls = 0
                    /\ store' = store
            /\ (ret'[p].id \in ValidIds /\ ret'[p].id \notin DOMAIN store)
                 => /\ ret'[p].err = "ErrNotFound"
                    /\ ret'[p].calls = 0
                    /\ store' = store]_vars

\* a malformed identifier was refused while a document is stored
C9_Witness ==
  \E p \in Procs :
    /\ Returned(p, "UpdateById")
    /\ ret[p].id \in MalformedIds
    /\ ret[p].err = "ErrInvalidObjectID"
    /\ store # EmptyMap

C11_QueryUpdateSetsFields ==
  [][\A p \in Procs, q \in Queries, u \in QueryUpdates :
       (UpdateWithQuery(p, q, u) /\ ~q.err)
         => /\ ret'[p].err = "nil"
            /\ DOMAIN store' = DOMAIN store
            /\ \A i \in DOMAIN store :
                 IF Matches(q, store[i])
                   THEN /\ DOMAIN store'[i] = DOMAIN store[i] \cup DOMAIN u.fields
                        /\ \A k \in DOMAIN u.fields : store'[i][k] = u.fields[k]
                        /\ \A k \in DOMAIN store[i] \ DOMAIN u.fields :
                             store'[i][k] = store[i][k]
                   ELSE store'[i] = store[i]
            /\ ret'[p].n = Cardinality({i \in DOMAIN store : store'[i] # store[i]})]_vars

\* the tag of the field has the option key (with an argument, for a bound)
HasOption(field, key, eq) ==
  \E i \in DOMAIN field.Schema :
    field.Schema[i].key = key /\ field.Schema[i].eq = eq

Numeric(type) == TypeInfo[type].Kind \in {"int", "uint"}

\* A well-formed instance of a struct type: every field tagged required is
\* populated, every numeric field tagged with a bound is within the bound,
\* and so for the fields of the records it embeds.
RECURSIVE WellFormed(_, _)
WellFormed(t, inst) ==
  \A i \in DOMAIN t :
    LET field == t[i]
        v == inst[field.Name]
    IN  IF field.Anonymous
          THEN TypeInfo[field.Type].Kind = "struct"
                 => WellFormed(StructFields(field.Type), v)
          ELSE /\ HasOption(field, "required", FALSE) => ~IsZeroValue(field.Type, v)
               /\ (Numeric(field.Type) /\ HasOption(field, "min", TRUE))
                    => v >= parseSchemaTag(field.Schema).Min
               /\ (Numeric(field.Type) /\ HasOption(field, "max", TRUE))
                    => v <= parseSchemaTag(field.Schema).Max

\* the schema is as GenerateFromStruct returned it
Uncustomized(s) ==
  /\ s.CustomValidator = "none"
  /\ \A n \in DOMAIN s.Fields :
       s.Fields[n].Enum = NoEnum /\ s.Fields[n].ValidateFunc = NoFunc

\* C12 (as claimed): the default validation of a well-formed instance of a
\* struct type with the schema derived from that type returns nil.
C12_WellFormedInstanceValidates ==
  (/\ verdict # NoVerdict
   /\ Uncustomized(derived)
   /\ WellFormed(structType, document))
    => verdict.err = "nil"

\* C13: with a custom validator on the schema, ValidateDocument returns nil
\* when the validator returns nil, whatever the required, bound, enum and
\* predicate rules of the fields say about the document, and otherwise the
\* validation-failed kind carrying the text of the validator's error.
C13_CustomValidatorReplacesBuiltIns ==
  (verdict # NoVerdict /\ derived.CustomValidator # "none")
    => LET text == RunCustomValidator(derived.CustomValidator, structType, document)
       IN  IF text = ""
             THEN verdict.err = "nil" /\ verdict.detail = NoDetail
             ELSE verdict.err = "ErrValidation" /\ verdict.detail = <<"custom", text>>

\* a custom validator accepted a document that the rules of the fields
\* reject
C13_Witness ==
  /\ verdict # NoVerdict
  /\ derived.CustomValidator # "none"
  /\ verdict.err = "nil"
  /\ Valid \notin defaultValidationOf(derived.Fields, structType, document)

\* the members of an instance of t that carry the storage name n: the name
\* of the bson tag if the tag gives one, else the name of the field; a
\* member tagged bson:"-" is not stored and has none
MembersNamed(t, n) ==
  {i \in DOMAIN t : ~(t[i].Bson.set /\ t[i].Bson.name = "-") /\ fieldName(t[i]) = n}

RequiredNames(s) == {n \in DOMAIN s.Fields : s.Fields[n].Required}

\* C14 (as claimed): default validation returns a validation error naming a
\* required field that has no member of that storage name in the document
\* or whose member is the zero value of its type, whenever there is such a
\* field; and when every required field has a member and none of these is
\* zero, it returns no error of the required check.
C14_RequiredMembersChecked ==
  (verdict # NoVerdict /\ derived.CustomValidator = "none")
    => LET absent == {n \in RequiredNames(derived) :
                        MembersNamed(structType, n) = {}}
           zero == {n \in RequiredNames(derived) :
                      \E i \in MembersNamed(structType, n) :
                        IsZeroValue(structType[i].Type,
                                    document[structType[i].Name])}
       IN  IF absent \cup zero # {}
             THEN /\ verdict.err = "ErrValidation"
                  /\ verdict.detail[1] \in {"not found", "empty"}
                  /\ verdict.detail[2] \in absent \cup zero
             ELSE verdict.detail[1] \notin {"not found", "empty"}

\* the numeric members of the document that lie below a non-zero Min or
\* above a non-zero Max of the field of their storage name
OutOfBounds(s, t, inst) ==
  {n \in DOMAIN s.Fields :
     \E i \in MembersNamed(t, n) :
       /\ Numeric(t[i].Type)
       /\ \/ s.Fields[n].Min # 0 /\ inst[t[i].Name] < s.Fields[n].Min
          \/ s.Fields[n].Max # 0 /\ inst[t[i].Name] > s.Fields[n].Max}

\* C15 (as claimed): default validation returns a Min or Max error only for
\* a numeric member below a non-zero Min or above a non-zero Max, and
\* rejects every document that has such a member: with a bound error naming
\* one of them when the required check found nothing.
C15_NonZeroBoundsEnforced ==
  (verdict # NoVerdict /\ Uncustomized(derived))
    => LET out == OutOfBounds(derived, structType, document)
       IN  /\ verdict.detail[1] \in {"min", "max"} => verdict.detail[2] \in out
           /\ out # {} =>
                /\ verdict.err = "ErrValidation"
                /\ verdict.detail[1] \in {"min", "max"} => verdict.detail[2] \in out
                /\ verdict.detail[1] \in {"min", "max", "not found", "empty"}

\* the declarations an entry of the schema derived from t can come from: the
\* fields of t and the fields of the records t embeds
SourceFields(t) ==
  {t[i] : i \in {j \in DOMAIN t : ~t[j].Anonymous}}
  \cup UNION {{StructFields(t[i].Type)[k] : k \in DOMAIN StructFields(t[i].Type)} :
              i \in {j \in DOMAIN t : t[j].Anonymous}}

\* the tag of Scenario C
ScenarioC ==
  <<Opt("required"), Opt("unique"), OptArg("min", "2"), OptArg("max", "100")>>

\* C16: every entry of a derived schema comes from a declared field of its
\* name whose tag has the required option exactly if the entry is Required,
\* the unique option exactly if it is Unique, and the index or the unique
\* option exactly if it is Index; Unique implies Index; and the tag
\* "required,unique,min=2,max=100" gives Required, Unique, Index, Min 2 and
\* Max 100.
C16_RequiredAndUniqueFollowTag ==
  derived # NoSchema
    => \A n \in DOMAIN derived.Fields :
         LET entry == derived.Fields[n]
         IN  /\ entry.Unique => entry.Index
             /\ \E f \in SourceFields(structType) :
                  /\ fieldName(f) = n
                  /\ entry.Required = HasOption(f, "required", FALSE)
                  /\ entry.Unique = HasOption(f, "unique", FALSE)
                  /\ entry.Index = (HasOption(f, "index", FALSE)
                                    \/ HasOption(f, "unique", FALSE))
                  /\ f.Schema = ScenarioC =>
                       /\ entry.Required /\ entry.Unique /\ entry.Index
                       /\ entry.Min = 2
                       /\ entry.Max = 100

\* the schema derived from a struct whose Name carries the tag of Scenario C
C16_Witness ==
  /\ derived # NoSchema
  /\ \E i \in DOMAIN structType : structType[i].Schema = ScenarioC
  /\ "Name" \in DOMAIN derived.Fields
  /\ derived.Fields["Name"].Unique
  /\ derived.Fields["Name"].Index
  /\ derived.Fields["Name"].Min = 2

\* the field f of a struct type puts an entry named n into the schema derived
\* from the type
Provides(f, n) ==
  /\ f.Exported
  /\ ~IsIDField(f)
  /\ IF f.Anonymous
       THEN /\ TypeInfo[f.Type].Kind = "struct"
            /\ \E k \in DOMAIN StructFields(f.Type) :
                 LET g == StructFields(f.Type)[k]
                 IN  g.Exported /\ ~IsIDField(g) /\ ~g.Anonymous /\ fieldName(g) = n
       ELSE fieldName(f) = n

\* the entry carries the Required, Min and Max of the tag of the field g
Preserves(entry, g) ==
  /\ entry.Required = HasOption(g, "required", FALSE)
  /\ entry.Min = parseSchemaTag(g.Schema).Min
  /\ entry.Max = parseSchemaTag(g.Schema).Max

\* C17 (as claimed): for every record a struct type embeds anonymously, the
\* derived schema has an entry for each field of the record under the name
\* of the field, with the Required, Min and Max of its tag, and none under
\* the name of the record; an anonymous field that is no record adds no
\* entry.
C17_EmbeddedFieldsKept ==
  derived # NoSchema
    => \A i \in DOMAIN structType :
         structType[i].Anonymous
           => /\ structType[i].Name \notin DOMAIN derived.Fields
              /\ \A k \in DOMAIN StructFields(structType[i].Type) :
                   LET g == StructFields(structType[i].Type)[k]
                   IN  /\ fieldName(g) \in DOMAIN derived.Fields
                       /\ Preserves(derived.Fields[fieldName(g)], g)

\* C17 (amended): the same for every exported record the type embeds, except
\* for a field of the record whose name a field declared later in the type
\* also provides; a record of an unexported type, like an anonymous field
\* that is no record, adds no entry.
C17_EmbeddedFieldsFlattened ==
  derived # NoSchema
    => \A i \in DOMAIN structType :
         structType[i].Anonymous
           => /\ structType[i].Name \notin DOMAIN derived.Fields
              /\ \A k \in DOMAIN StructFields(structType[i].Type) :
                   LET g == StructFields(structType[i].Type)[k]
                       later == \E j \in DOMAIN structType :
                                  j > i /\ Provides(structType[j], fieldName(g))
                       other == \E j \in DOMAIN structType :
                                  j # i /\ Provides(structType[j], fieldName(g))
                   IN  IF structType[i].Exported
                         THEN ~later =>
                                /\ fieldName(g) \in DOMAIN derived.Fields
                                /\ Preserves(derived.Fields[fieldName(g)], g)
                         ELSE ~other => fieldName(g) \notin DOMAIN derived.Fields

\* the schema of a struct that embeds NestedStruct has the entries Field1
\* and Field2 of the embedded record and none named NestedStruct
C17_Witness ==
  /\ derived # NoSchema
  /\ \E i \in DOMAIN structType :
       structType[i].Anonymous /\ structType[i].Type = "NestedStruct"
  /\ "Field1" \in DOMAIN derived.Fields
  /\ derived.Fields["Field1"].Required
  /\ "Field2" \in DOMAIN derived.Fields
  /\ derived.Fields["Field2"].Min = 1
  /\ derived.Fields["Field2"].Max = 10
  /\ "NestedStruct" \notin DOMAIN derived.Fields

\* the fields a struct type declares itself that are exported, not anonymous
\* and not the identifier
DeclaredFields(t) ==
  {i \in DOMAIN t : t[i].Exported /\ ~t[i].Anonymous /\ ~IsIDField(t[i])}

\* C18: a schema can be derived from a struct type that refers to itself,
\* and it has one entry for each field the type declares besides the
\* identifier (Name, Parent and Children of RecursiveStruct); the entry of a
\* member that points to the type holds nil and the entry of a member that
\* is a slice of the type holds an empty slice, neither a schema of the type.
C18_SelfReferenceDerives ==
  /\ (structType = RecursiveStructFields /\ derived = NoSchema) => ENABLED Generate
  /\ (structType = RecursiveStructFields /\ derived # NoSchema)
       => DOMAIN derived.Fields = {"Name", "Parent", "Children"}
  /\ derived # NoSchema
       => \A i \in DeclaredFields(structType) :
            LET info == TypeInfo[structType[i].Type]
                entry == derived.Fields[fieldName(structType[i])]
            IN  info.Elem = "RecursiveStruct"
                  => /\ fieldName(structType[i]) \in DOMAIN derived.Fields
                     /\ info.Kind = "ptr" => entry.Type = NilValue
                     /\ info.Kind = "slice"
                          => entry.Type = [v |-> "empty", type |-> structType[i].Type]
                     /\ ~entry.Required /\ entry.Min = 0 /\ entry.Max = 0

\* the schema derived from RecursiveStruct, with nil for Parent
C18_Witness ==
  /\ structType = RecursiveStructFields
  /\ derived # NoSchema
  /\ derived.Fields["Name"].Required
  /\ derived.Fields["Parent"].Type = NilValue
  /\ derived.Fields["Children"].Type.v = "empty"

\* the texts of the errors the builder records itself
BuilderErrors ==
  {"key cannot be empty", "operator cannot be empty", "sort key cannot be empty",
   "limit cannot be negative", "skip cannot be negative"}

\* C19: a call with an empty key, an empty operator or a negative limit or
\* skip on a builder without an error records an error; from then on every
\* call in the chain leaves filter, sort, limit, skip and the error as they
\* are, and GetFilter, GetOptions and Build return that error and nothing
\* else.
C19_FirstErrorSticks ==
  [][/\ (builder.err = "" /\ builder'.err # "")
          => /\ builder'.err \in BuilderErrors
             /\ builder' = [builder EXCEPT !.err = builder'.err]
     /\ builder.err = ""
          => /\ \A value \in QueryValues :
                  /\ Where(builder, "", value).err # ""
                  /\ WhereOperator(builder, "", "$gt", value).err # ""
                  /\ WhereOperator(builder, "name", "", value).err # ""
             /\ Regex(builder, "", "^a", <<>>).err # ""
             /\ SortBy(builder, "", TRUE).err # ""
             /\ Limit(builder, -1).err # ""
             /\ Skip(builder, -1).err # ""
     /\ builder.err # ""
          => /\ builder' = builder
             /\ \A key \in QueryKeys, value \in QueryValues, limit \in QueryLimits :
                  /\ Where(builder, key, value) = builder
                  /\ \A operator \in QueryOperators :
                       WhereOperator(builder, key, operator, value) = builder
                  /\ \A options \in RegexOptions :
                       Regex(builder, key, "^a", options) = builder
                  /\ \A ascending \in BOOLEAN : SortBy(builder, key, ascending) = builder
                  /\ Limit(builder, limit) = builder
                  /\ Skip(builder, limit) = builder
                  /\ \A filter \in MergeFilters : MergeFilter(builder, filter) = builder
             /\ \A result \in {GetFilter(builder), GetOptions(builder), Build(builder)} :
                  /\ result.err = builder.err
                  /\ result.filter = NilFilter
                  /\ result.opts = NilOptions
             /\ built'.op # "" => built'.err = builder.err]_vars

\* Build has returned the error of a builder that holds conditions, a sort
\* and a limit from the calls before the failed one
C19_Witness ==
  /\ builder.err \in BuilderErrors
  /\ builder.filter # EmptyMap
  /\ builder.sort # <<>>
  /\ builder.limit > 0
  /\ built.op = "Build"
  /\ built.err = builder.err
  /\ built.filter = NilFilter

\* C20: in one call of ExecuteTransaction fn runs at most once and only in a
\* started transaction; the commit is called only after fn returned nil and
\* the abort only after fn returned an error, so never both and never a
\* commit after a failed fn; the call returns the error of fn after the
\* abort, nil after a commit that succeeded and a database error after one
\* that failed, and a database error without running fn when the
\* transaction did not start.
C20_CommitOrAbortNeverBoth ==
  \A p \in Procs :
    LET s == session[p]
    IN  /\ s.ran <= 1
        /\ s.ran = 1 <=> s.fn # ""
        /\ s.ran = 1 => s.txn # "none"
        /\ s.commits + s.aborts <= 1
        /\ s.commits = 1 => s.fn = "nil"
        /\ s.aborts = 1 => s.fn \in FnResults \ {"nil"}
        /\ s.txn = "committed" <=> (s.commits = 1 /\ s.at = "done" /\ s.err = "")
        /\ s.txn = "aborted" => s.aborts = 1
        /\ s.at = "done"
             => CASE s.fn = "" ->
                       /\ s.txn = "none"
                       /\ s.commits = 0 /\ s.aborts = 0
                       /\ s.err = "ErrDatabase: failed to start transaction"
                  [] s.fn = "nil" ->
                       /\ s.commits = 1
                       /\ s.err \in {"", "ErrDatabase: failed to commit transaction"}
                  [] OTHER ->
                       /\ s.aborts = 1
                       /\ s.err = s.fn
        /\ s.at # "done" => s.commits = 0 /\ s.aborts = 0 /\ s.err = ""

\* one call has returned the error of its fn with the transaction aborted
\* while another has committed
C20_Witness ==
  \E p, q \in Procs :
    /\ session[p].at = "done"
    /\ session[p].fn = "fake failure in fn"
    /\ session[p].err = "fake failure in fn"
    /\ session[p].txn = "aborted"
    /\ session[q].at = "done"
    /\ session[q].txn = "committed"
    /\ session[q].err = ""

\* the function op of p returns in this step
RegReturns(p, op) ==
  /\ reg[p].op = op
  /\ reg[p].at # "done"
  /\ reg'[p].at = "done"

\* C21: when DisconnectAll returns no connection is left in the registry, so
\* GetConnectionByName finds nil under every name, the default one too.
C21_DisconnectAllEmptiesRegistry ==
  [][\A p \in Procs :
       RegReturns(p, "DisconnectAll")
         => \A name \in ConnectionNames : name \notin DOMAIN connections']_vars

\* the next step of p reads, ranges over or writes the connections map
AccessesConnections(p) == reg[p].at \in {"locked", "rlocked", "range"}

\* C28: a caller whose next step reads, ranges over or writes the
\* connections map holds connectionMutex, also inside ModelNew while another
\* caller connects or disconnects.
C28_RegistryAccessHoldsMutex ==
  \A p \in Procs : AccessesConnections(p) => HoldsMutex(p)

\* no caller is inside a function of the package
Quiescent == \A p \in Procs : reg[p].at \in {"idle", "done"}

\* C29: between the calls every client that is connected is in the registry
\* under some name; connecting under a name in use leaves no connected
\* client without an entry.
C29_ConnectedClientsRegistered ==
  Quiescent
    => \A c \in DOMAIN clients :
         clients[c] = "connected"
           => \E name \in DOMAIN connections : connections[name] = c

\* C22: on a model without a type witness no UpdateById runs the validator;
\* a call returns before its UpdateOne only when it could not parse the
\* identifier, find the document or prepare the update, and every other
\* call goes on to the UpdateOne, which sets the prepared update and returns
\* nil, whatever the document then looks like.
C22_NoWitnessNoRevalidation ==
  [][\A p \in Procs :
       ~schema.ModelType
         => /\ Returns(p, "UpdateById")
                 => /\ ret'[p].calls = 0
                    /\ ret'[p].detail = NoDetail
            /\ (pc[p] = "idle" /\ Returns(p, "UpdateById"))
                 => /\ ret'[p].sat = "na"
                    /\ ret'[p].err \in {"ErrInvalidObjectID", "ErrNotFound",
                                        "ErrValidation"}
                    /\ store' = store
            /\ (pc[p] = "idle" /\ pc'[p] = "write")
                 => /\ call'[p].calls = 0
                    /\ store' = store
            /\ (pc[p] = "write" /\ pc'[p] # "write")
                 => /\ Returns(p, "UpdateById")
                    /\ ret'[p].err = "nil"
                    /\ store' = UpdateOne(store, ObjectIDFromHex(call[p].id).oid,
                                          call[p].upd)]_vars

\* an UpdateById on a model without a type witness has returned nil without
\* a run of the validator, having written a document that does not meet the
\* constraints of the schema
C22_Witness ==
  \E p \in Procs :
    /\ Returned(p, "UpdateById")
    /\ ~schema.ModelType
    /\ ret[p].err = "nil"
    /\ ret[p].calls = 0
    /\ ret[p].sat = "bad"

\* C23: the schema of a model built by ModelNew[T] has the type witness a
\* model built by NewGeneric[T] has, and an UpdateById on it whose overlay
\* does not meet the constraints returns a validation error after one run of
\* the validator and writes nothing.
C23_ModelNewRevalidates ==
  [][\A p \in Procs :
       /\ schema.ModelType = NewGeneric(schema).ModelType
       /\ (Returns(p, "UpdateById") /\ ret'[p].sat = "bad")
            => /\ ret'[p].err = "ErrValidation"
               /\ ret'[p].calls = 1
               /\ store' = store]_vars

\* the validator that relates the name and the age accepts the stored
\* document
Accepted(id) == customNameWithAge(UnmarshalStruct(id, store[id])) = Valid

C25_SuccessMeansMatched ==
  [][\A p \in Procs :
       (pc[p] = "write" /\ Returns(p, "UpdateById"))
         => IF ObjectIDFromHex(call[p].id).oid \in DOMAIN store
              THEN ret'[p].err = "nil"
              ELSE ret'[p].err = "ErrNotFound"]_vars

\* C26: without another writer, the document stored after an UpdateById
\* that returned nil is the overlay of the fetched document with the
\* prepared update, the map that was validated, also when a key of the
\* update is a dotted path or the name of an update operator.
C26_StoredEqualsValidatedOverlay ==
  [][\A p \in Procs :
       (/\ pc[p] = "write"
        /\ Returns(p, "UpdateById")
        /\ ret'[p].err = "nil"
        /\ call[p].id \in DOMAIN store
        /\ store[call[p].id] = call[p].snap)
         => store'[call[p].id] = Overlay(call[p].snap, call[p].upd)]_vars

\* the rules of the second loop
FieldRules == {"min", "max", "enum", "custom validation"}

\* the member with the value v fails the rule of the field, taken by itself
RuleFails(rule, field, member, v) ==
  CASE rule = "min" ->
         TypeInfo[member.Type].Kind = "int" /\ field.Min # 0 /\ v < field.Min
    [] rule = "max" ->
         TypeInfo[member.Type].Kind = "int" /\ field.Max # 0 /\ v > field.Max
    [] rule = "enum" ->
         field.Enum # NoEnum /\ ~InEnum(field.Enum, member.Type, v)
    [] OTHER ->
         field.ValidateFunc # NoFunc
           /\ ~ValidateFuncHolds(field.ValidateFunc, member.Type, v)

\* every violation defaultValidation would find in the instance, were it to
\* go on after the first
Violations(fields, t, inst) ==
  LET members == bsonToStructField(t)
  IN  requiredErrors(fields, t, inst)
      \cup UNION {{Invalid(rule, n) : rule \in
                     {r \in FieldRules :
                        RuleFails(r, fields[n], members[n], inst[members[n].Name])}} :
                  n \in DOMAIN fields \cap DOMAIN members}

\* a document was validated by the default validation
DefaultValidated ==
  /\ derived # NoSchema
  /\ verdict # NoVerdict
  /\ derived.CustomValidator = "none"

\* C27 (as claimed): the default validation returns one violation, and any
\* violation of the document may be the one it returns, also a bound, enum
\* or predicate violation of a document that lacks a required field.
C27_AnyViolationMayBeReported ==
  DefaultValidated
    => /\ verdict.err = "nil" <=> Violations(derived.Fields, structType, document) = {}
       /\ verdict.err # "nil"
            => /\ verdict \in Violations(derived.Fields, structType, document)
               /\ Violations(derived.Fields, structType, document)
                    \subseteq ValidateDocumentOf(derived, structType, document)

\* C27 (amended): the default validation returns one violation of the
\* document; when a required field is missing or empty it returns a
\* required-field violation, and any of those may be the one; otherwise it
\* returns, for one of the fields with a violation, the first rule in the
\* order min, max, enum, predicate that the field fails.
C27_RequiredViolationsComeFirst ==
  DefaultValidated
    => LET all == Violations(derived.Fields, structType, document)
           required == requiredErrors(derived.Fields, structType, document)
           results == ValidateDocumentOf(derived, structType, document)
       IN  /\ verdict \in results
           /\ verdict.err = "nil" <=> all = {}
           /\ verdict.err # "nil" => verdict \in all
           /\ required # {} => results = required
           /\ required = {}
                => /\ results \subseteq all \cup {Valid}
                   /\ \A e \in all :
                        /\ \E r \in results : r.detail[2] = e.detail[2]
                        /\ e \in results
                             <=> ~\E o \in all :
                                    /\ o.detail[2] = e.detail[2]
                                    /\ \/ o.detail[1] = "min" /\ e.detail[1] # "min"
                                       \/ o.detail[1] = "max"
                                            /\ e.detail[1] \in {"enum", "custom validation"}
                                       \/ o.detail[1] = "enum"
                                            /\ e.detail[1] = "custom validation"

\* a document that lacks a required field and breaks a bound of another was
\* validated, and the violation returned is the one of the required field
C27_Witness ==
  /\ DefaultValidated
  /\ verdict.err # "nil"
  /\ verdict \in requiredErrors(derived.Fields, structType, document)
  /\ \E e \in Violations(derived.Fields, structType, document) :
       e.detail[1] \in {"min", "max"}

\* the storage names whose member of the document is of the kind and lies
\* below a non-zero Min or above a non-zero Max of the field of that name
OutOfBoundsOfKind(kind, s, t, inst) ==
  {n \in OutOfBounds(s, t, inst) :
     \E i \in MembersNamed(t, n) :
       /\ TypeInfo[t[i].Type].Kind = kind
       /\ \/ s.Fields[n].Min # 0 /\ inst[t[i].Name] < s.Fields[n].Min
          \/ s.Fields[n].Max # 0 /\ inst[t[i].Name] > s.Fields[n].Max}

\* C30 (as claimed): whatever the numeric kind of a member, signed or
\* unsigned, default validation rejects a document in which a member of
\* that kind lies outside a non-zero Min or Max of its field.
C30_BoundsEnforcedForEveryNumericKind ==
  (verdict # NoVerdict /\ derived.CustomValidator = "none")
    => \A kind \in {"int", "uint"} :
         OutOfBoundsOfKind(kind, derived, structType, document) # {}
           => verdict.err = "ErrValidation"

====
